---- MODULE Spec2Model ----
(***************************************************************************)
(* State-machine model of the django-tarefas application: the Tarefa and   *)
(* Categoria tables, the TarefaForm validation, the function-based views   *)
(* of tarefas/views.py and the post_migrate seeding receiver of            *)
(* tarefas/signals.py.                                                     *)
(*                                                                         *)
(* Text values (titles, descriptions, priorities, names) are sequences of  *)
(* one-character strings, so that strip(), len(), isdigit(), startswith()  *)
(* and the database's string ordering are computed, not assumed.           *)
(* Timestamps are ticks of the clock `agora`; a date is a tick count       *)
(* divided by TicksPorDia.  NULL is the database NULL / Python None of a   *)
(* nullable numeric column.                                                *)
(***************************************************************************)
EXTENDS Integers, Sequences, FiniteSets, TLC

VARIABLES tarefas, categorias, proxTarefa, proxCategoria, agora, resp,
          receptor, pedidos

vars ==
    <<tarefas, categorias, proxTarefa, proxCategoria, agora, resp, receptor, pedidos>>

(***************************************************************************)
(* Bounds of the model.                                                    *)
(***************************************************************************)
MaxTarefas == 2
MaxCategorias == 2
MaxRelogio == 1
MaxTitulo == 4

(***************************************************************************)
(* Program constants.                                                      *)
(***************************************************************************)
NULL == -1
TicksPorDia == 2
TITULO_MAX_LENGTH == 200
TITULO_MIN_LENGTH == 3
\* the slice of the home page's query (views.py, index)
LimiteUltimas == 5

PRIORIDADE_BAIXA == <<"b", "a", "i", "x", "a">>
PRIORIDADE_MEDIA == <<"m", "e", "d", "i", "a">>
PRIORIDADE_ALTA == <<"a", "l", "t", "a">>
PRIORIDADES == {PRIORIDADE_BAIXA, PRIORIDADE_MEDIA, PRIORIDADE_ALTA}

(***************************************************************************)
(* Text primitives.                                                        *)
(***************************************************************************)
Digitos == {"0", "1", "2", "3", "4", "5", "6", "7", "8", "9"}
Brancos == {" "}

\* code point of the lower-case letters the priority values are made of
CodePoint(c) ==
    CASE c = "a" -> 97 [] c = "b" -> 98 [] c = "d" -> 100 [] c = "e" -> 101
      [] c = "i" -> 105 [] c = "l" -> 108 [] c = "m" -> 109 [] c = "t" -> 116
      [] c = "x" -> 120

RECURSIVE LStrip(_)
LStrip(s) == IF s # <<>> /\ Head(s) \in Brancos THEN LStrip(Tail(s)) ELSE s

RECURSIVE RStrip(_)
RStrip(s) ==
    IF s # <<>> /\ s[Len(s)] \in Brancos THEN RStrip(SubSeq(s, 1, Len(s) - 1)) ELSE s

\* str.strip()
Strip(s) == RStrip(LStrip(s))

\* str.isdigit(): at least one character and all of them digits
IsDigit(s) == s # <<>> /\ \A i \in 1..Len(s) : s[i] \in Digitos

\* str.startswith(prefix)
StartsWith(s, prefix) ==
    Len(s) >= Len(prefix) /\ SubSeq(s, 1, Len(prefix)) = prefix

\* binary string order of the database: s < t
RECURSIVE StrLess(_, _)
StrLess(s, t) ==
    IF t = <<>> THEN FALSE
    ELSE IF s = <<>> THEN TRUE
    ELSE IF CodePoint(Head(s)) # CodePoint(Head(t))
         THEN CodePoint(Head(s)) < CodePoint(Head(t))
         ELSE StrLess(Tail(s), Tail(t))

\* timezone.now().date()
Data(ts) == ts \div TicksPorDia

\* the decimal digit of a value below ten
Algarismo(d) ==
    CASE d = 0 -> "0" [] d = 1 -> "1" [] d = 2 -> "2" [] d = 3 -> "3"
      [] d = 4 -> "4" [] d = 5 -> "5" [] d = 6 -> "6" [] d = 7 -> "7"
      [] d = 8 -> "8" [] d = 9 -> "9"

\* datetime.isoformat(): the text of a time, here the decimal numeral of
\* its tick count
RECURSIVE isoformat(_)
isoformat(ts) ==
    IF ts < 10 THEN <<Algarismo(ts)>>
    ELSE Append(isoformat(ts \div 10), Algarismo(ts % 10))

\* value of a decimal digit
Digito(c) ==
    CASE c = "0" -> 0 [] c = "1" -> 1 [] c = "2" -> 2 [] c = "3" -> 3
      [] c = "4" -> 4 [] c = "5" -> 5 [] c = "6" -> 6 [] c = "7" -> 7
      [] c = "8" -> 8 [] c = "9" -> 9

\* int() of a string of decimal digits
RECURSIVE ParseInt(_)
ParseInt(s) ==
    IF s = <<>> THEN 0
    ELSE 10 * ParseInt(SubSeq(s, 1, Len(s) - 1)) + Digito(s[Len(s)])

(***************************************************************************)
(* models.py: the Tarefa row and its methods.                              *)
(***************************************************************************)
\* field defaults of a Tarefa instance that has not been saved yet
Tarefa ==
    [titulo |-> <<>>, descricao |-> <<>>, concluida |-> FALSE,
     prioridade |-> PRIORIDADE_MEDIA, criada_em |-> NULL,
     atualizada_em |-> NULL, concluida_em |-> NULL, data_limite |-> NULL,
     categoria |-> NULL]

\* Model.save() of an existing row: atualizada_em has auto_now=True
save(t, ts) == [t EXCEPT !.atualizada_em = ts]

\* Model.save() of a new row: criada_em has auto_now_add=True
insert(t, ts) == [t EXCEPT !.criada_em = ts, !.atualizada_em = ts]

\* mutant: the completion time is only set the first time
marcar_concluida_mut(t, ts) ==
    save([t EXCEPT !.concluida = TRUE,
                   !.concluida_em = IF t.criada_em = ts THEN NULL ELSE ts], ts)

marcar_concluida(t, ts) ==
    save([t EXCEPT !.concluida = TRUE, !.concluida_em = ts], ts)

\* mutant: the completion time survives the return to pending
marcar_pendente_mut(t, ts) == save([t EXCEPT !.concluida = FALSE], ts)

marcar_pendente(t, ts) ==
    save([t EXCEPT !.concluida = FALSE, !.concluida_em = NULL], ts)

\* mutant: a task due today already counts as late
esta_atrasada_mut(t, ts) ==
    IF t.data_limite # NULL /\ ~t.concluida
    THEN Data(ts) >= t.data_limite
    ELSE FALSE

esta_atrasada(t, ts) ==
    IF t.data_limite # NULL /\ ~t.concluida
    THEN Data(ts) > t.data_limite
    ELSE FALSE

(***************************************************************************)
(* forms.py: TarefaForm.  A submitted form is a record                     *)
(*   [titulo, descricao, prioridade, categoria, data_limite]               *)
(* of raw values; titulo, descricao, prioridade and categoria are text,    *)
(* data_limite is a day number or NULL (the date parser is not modelled).  *)
(* A cleaned field is [ok, valor].                                         *)
(***************************************************************************)
Falha == [ok |-> FALSE, valor |-> <<>>]

\* mutant: the minimum length is compared with <= instead of <
clean_titulo_mut(valor) ==
    LET titulo == Strip(valor) IN
    IF Len(titulo) <= TITULO_MIN_LENGTH THEN Falha
    ELSE IF IsDigit(titulo) THEN Falha
    ELSE [ok |-> TRUE, valor |-> titulo]

clean_titulo(valor) ==
    LET titulo == Strip(valor) IN
    IF Len(titulo) < TITULO_MIN_LENGTH THEN Falha
    ELSE IF IsDigit(titulo) THEN Falha
    ELSE [ok |-> TRUE, valor |-> titulo]

\* the titulo form field: a required CharField that strips its input and
\* enforces the column's max_length, followed by clean_titulo
campo_titulo(raw) ==
    LET valor == Strip(raw) IN
    IF valor = <<>> THEN Falha
    ELSE IF Len(valor) > TITULO_MAX_LENGTH THEN Falha
    ELSE clean_titulo(valor)

\* mutant: the description is stored as it was typed
campo_descricao_mut(raw) == [ok |-> TRUE, valor |-> raw]

\* the descricao form field: an optional CharField that strips its input
campo_descricao(raw) == [ok |-> TRUE, valor |-> Strip(raw)]

\* the prioridade form field: a required choice among PRIORIDADES
campo_prioridade(raw) ==
    IF raw \in PRIORIDADES THEN [ok |-> TRUE, valor |-> raw] ELSE Falha

\* the categoria form field: an optional choice among the stored categories
campo_categoria(raw, cats) ==
    IF raw = <<>> THEN [ok |-> TRUE, valor |-> NULL]
    ELSE IF IsDigit(raw) /\ ParseInt(raw) \in DOMAIN cats
         THEN [ok |-> TRUE, valor |-> ParseInt(raw)]
         ELSE [ok |-> FALSE, valor |-> NULL]

\* mutant: the cross-field rule looks at the raw priority label
clean_mut(prioridade, descricao) ==
    IF prioridade.ok /\ prioridade.valor = <<"A", "l", "t", "a">>
       /\ descricao.valor = <<>>
    THEN {"descricao"}
    ELSE {}

\* TarefaForm.clean(): the fields it adds errors to
clean(prioridade, descricao) ==
    IF prioridade.ok /\ prioridade.valor = PRIORIDADE_ALTA /\ descricao.valor = <<>>
    THEN {"descricao"}
    ELSE {}

\* the bound form after full_clean(): field errors and cleaned data
TarefaForm(post, cats) ==
    LET titulo == campo_titulo(post.titulo)
        descricao == campo_descricao(post.descricao)
        prioridade == campo_prioridade(post.prioridade)
        categoria == campo_categoria(post.categoria, cats)
    IN [erros |-> {f \in {"titulo"} : ~titulo.ok}
                    \cup {f \in {"prioridade"} : ~prioridade.ok}
                    \cup {f \in {"categoria"} : ~categoria.ok}
                    \cup clean(prioridade, descricao),
        titulo |-> titulo.valor, descricao |-> descricao.valor,
        prioridade |-> prioridade.valor, categoria |-> categoria.valor,
        data_limite |-> post.data_limite]

\* mutant: only the errors of the title are looked at
is_valid_mut(form) == "titulo" \notin form.erros

is_valid(form) == form.erros = {}

\* mutant: Meta.fields = '__all__', the absent checkbox clears concluida
form_fields_mut(form, instance) ==
    [instance EXCEPT !.titulo = form.titulo, !.descricao = form.descricao,
                     !.prioridade = form.prioridade,
                     !.categoria = form.categoria,
                     !.data_limite = form.data_limite,
                     !.concluida = FALSE]

\* ModelForm.save(): only Meta.fields are copied onto the instance
form_fields(form, instance) ==
    [instance EXCEPT !.titulo = form.titulo, !.descricao = form.descricao,
                     !.prioridade = form.prioridade,
                     !.categoria = form.categoria,
                     !.data_limite = form.data_limite]

(***************************************************************************)
(* The store.  tarefas and categorias map primary keys to rows;            *)
(* proxTarefa and proxCategoria are the next autoincrement keys.  resp is  *)
(* the response to the last request: the view, the HTTP status, the key    *)
(* of a created row, the form fields carrying errors and, for the list     *)
(* view, the keys of the rows of the result in order; contexto is the      *)
(* object, the statistics or the JSON body of the views that return one.   *)
(* receptor is the                                                         *)
(* position of each process that runs the post_migrate receiver; pedidos   *)
(* is the request each worker process is serving between its load of a     *)
(* row and its save.                                                       *)
(***************************************************************************)
Resposta(op, status, pk, erros, lista) ==
    [op |-> op, status |-> status, pk |-> pk, erros |-> erros, lista |-> lista,
     contexto |-> <<>>]

\* a response whose template context or JSON body holds the value contexto
RespostaCom(op, status, pk, contexto) ==
    [Resposta(op, status, pk, {}, <<>>) EXCEPT !.contexto = contexto]

Remover(tabela, pk) == [k \in DOMAIN tabela \ {pk} |-> tabela[k]]

Inserir(tabela, pk, linha) ==
    [k \in DOMAIN tabela \cup {pk} |-> IF k = pk THEN linha ELSE tabela[k]]

\* the processes that run the receiver of post_migrate, or serve requests
Processos == {"p1", "p2"}

\* a process in which the receiver has not been called: pc is the position
\* of the process, saida the branch by which the receiver left and criadas
\* the keys of the tasks it created
Parado == [pc |-> "parado", saida |-> {}, criadas |-> <<>>]

\* a worker that serves no request: pc is its position, op the view, status
\* the answer it gave, pk the key of the URL, tarefa the instance it loaded
\* with get_object_or_404 and form the bound form of the request
Ocioso ==
    [pc |-> "ocioso", op |-> "", status |-> 0, pk |-> NULL, tarefa |-> Tarefa,
     form |-> [erros |-> {}, titulo |-> <<>>, descricao |-> <<>>,
               prioridade |-> PRIORIDADE_MEDIA, categoria |-> NULL,
               data_limite |-> NULL]]

Init ==
    /\ tarefas = <<>>
    /\ categorias = <<>>
    /\ proxTarefa = 1
    /\ proxCategoria = 1
    /\ agora = 0
    /\ resp = Resposta("", 0, NULL, {}, <<>>)
    /\ receptor = [p \in Processos |-> Parado]
    /\ pedidos = [p \in Processos |-> Ocioso]

\* time passes between two requests, up to the instant fim
Passa(fim) ==
    /\ agora < fim
    /\ agora' = agora + 1
    /\ UNCHANGED <<tarefas, categorias, proxTarefa, proxCategoria, resp, receptor, pedidos>>

Tick == Passa(MaxRelogio)

(***************************************************************************)
(* views.py                                                                *)
(***************************************************************************)
criar_tarefa(metodo, post) ==
    LET form == TarefaForm(post, categorias) IN
    IF metodo = "POST" /\ is_valid(form)
    THEN /\ tarefas' = Inserir(tarefas, proxTarefa,
                               insert(form_fields(form, Tarefa), agora))
         /\ proxTarefa' = proxTarefa + 1
         /\ resp' = Resposta("criar_tarefa", 302, proxTarefa, {}, <<>>)
         /\ UNCHANGED <<categorias, proxCategoria, agora, receptor, pedidos>>
    ELSE /\ resp' = Resposta("criar_tarefa", 200, NULL,
                             IF metodo = "POST" THEN form.erros ELSE {}, <<>>)
         /\ UNCHANGED <<tarefas, categorias, proxTarefa, proxCategoria, agora, receptor, pedidos>>

editar_tarefa(metodo, pk, post) ==
    IF pk \notin DOMAIN tarefas
    THEN /\ resp' = Resposta("editar_tarefa", 404, NULL, {}, <<>>)
         /\ UNCHANGED <<tarefas, categorias, proxTarefa, proxCategoria, agora, receptor, pedidos>>
    ELSE LET tarefa == tarefas[pk]
             form == TarefaForm(post, categorias)
         IN IF metodo = "POST" /\ is_valid(form)
            THEN /\ tarefas' = [tarefas EXCEPT
                                  ![pk] = save(form_fields(form, tarefa), agora)]
                 /\ resp' = Resposta("editar_tarefa", 302, pk, {}, <<>>)
                 /\ UNCHANGED <<categorias, proxTarefa, proxCategoria, agora, receptor, pedidos>>
            ELSE /\ resp' = Resposta("editar_tarefa", 200, NULL,
                                     IF metodo = "POST" THEN form.erros ELSE {},
                                     <<>>)
                 /\ UNCHANGED <<tarefas, categorias, proxTarefa, proxCategoria,
                                agora, receptor, pedidos>>

\* mutant: the test of the request method is inverted
excluir_tarefa_inv(metodo, pk) ==
    IF pk \notin DOMAIN tarefas
    THEN /\ resp' = Resposta("excluir_tarefa", 404, NULL, {}, <<>>)
         /\ UNCHANGED <<tarefas, categorias, proxTarefa, proxCategoria, agora,
                        receptor, pedidos>>
    ELSE IF metodo # "POST"
    THEN /\ tarefas' = Remover(tarefas, pk)
         /\ resp' = Resposta("excluir_tarefa", 302, pk, {}, <<>>)
         /\ UNCHANGED <<categorias, proxTarefa, proxCategoria, agora, receptor, pedidos>>
    ELSE /\ resp' = Resposta("excluir_tarefa", 200, NULL, {}, <<>>)
         /\ UNCHANGED <<tarefas, categorias, proxTarefa, proxCategoria, agora,
                        receptor, pedidos>>

\* mutant: the row is deleted whatever the method of the request
excluir_tarefa_mut(metodo, pk) ==
    IF pk \notin DOMAIN tarefas
    THEN /\ resp' = Resposta("excluir_tarefa", 404, NULL, {}, <<>>)
         /\ UNCHANGED <<tarefas, categorias, proxTarefa, proxCategoria, agora,
                        receptor, pedidos>>
    ELSE /\ tarefas' = Remover(tarefas, pk)
         /\ resp' = Resposta("excluir_tarefa",
                             IF metodo = "POST" THEN 302 ELSE 200,
                             IF metodo = "POST" THEN pk ELSE NULL, {}, <<>>)
         /\ UNCHANGED <<categorias, proxTarefa, proxCategoria, agora, receptor, pedidos>>

excluir_tarefa(metodo, pk) ==
    IF pk \notin DOMAIN tarefas
    THEN /\ resp' = Resposta("excluir_tarefa", 404, NULL, {}, <<>>)
         /\ UNCHANGED <<tarefas, categorias, proxTarefa, proxCategoria, agora, receptor, pedidos>>
    ELSE IF metodo = "POST"
    THEN /\ tarefas' = Remover(tarefas, pk)
         /\ resp' = Resposta("excluir_tarefa", 302, pk, {}, <<>>)
         /\ UNCHANGED <<categorias, proxTarefa, proxCategoria, agora, receptor, pedidos>>
    ELSE /\ resp' = Resposta("excluir_tarefa", 200, NULL, {}, <<>>)
         /\ UNCHANGED <<tarefas, categorias, proxTarefa, proxCategoria, agora, receptor, pedidos>>

\* mutant: a key that is not stored is answered with the redirect
alternar_status_mut(pk) ==
    IF pk \notin DOMAIN tarefas
    THEN /\ resp' = Resposta("alternar_status", 302, NULL, {}, <<>>)
         /\ UNCHANGED <<tarefas, categorias, proxTarefa, proxCategoria, agora,
                        receptor, pedidos>>
    ELSE LET tarefa == tarefas[pk] IN
         /\ tarefas' = [tarefas EXCEPT
                          ![pk] = IF tarefa.concluida
                                  THEN marcar_pendente(tarefa, agora)
                                  ELSE marcar_concluida(tarefa, agora)]
         /\ resp' = Resposta("alternar_status", 302, pk, {}, <<>>)
         /\ UNCHANGED <<categorias, proxTarefa, proxCategoria, agora, receptor, pedidos>>

alternar_status(pk) ==
    IF pk \notin DOMAIN tarefas
    THEN /\ resp' = Resposta("alternar_status", 404, NULL, {}, <<>>)
         /\ UNCHANGED <<tarefas, categorias, proxTarefa, proxCategoria, agora, receptor, pedidos>>
    ELSE LET tarefa == tarefas[pk] IN
         /\ tarefas' = [tarefas EXCEPT
                          ![pk] = IF tarefa.concluida
                                  THEN marcar_pendente(tarefa, agora)
                                  ELSE marcar_concluida(tarefa, agora)]
         /\ resp' = Resposta("alternar_status", 302, pk, {}, <<>>)
         /\ UNCHANGED <<categorias, proxTarefa, proxCategoria, agora, receptor, pedidos>>

\* TarefaDetailView: DetailView.get_object() answers 404 for a key that is
\* not stored and puts the row in the context otherwise
TarefaDetailView(pk) ==
    /\ resp' = IF pk \in DOMAIN tarefas
               THEN RespostaCom("TarefaDetailView", 200, pk, tarefas[pk])
               ELSE Resposta("TarefaDetailView", 404, NULL, {}, <<>>)
    /\ UNCHANGED <<tarefas, categorias, proxTarefa, proxCategoria, agora,
                   receptor, pedidos>>

\* the views editar_tarefa and alternar_status served by worker p in two
\* steps, as the code runs them without a transaction and without
\* select_for_update: first the reads (get_object_or_404 loads the whole
\* row into an instance; the form is bound and validated), then
\* Model.save(), which writes every column of the instance.  Other workers
\* run between the two steps.
PedidoFeito(op, status, pk, tarefa, form) ==
    [pc |-> "feito", op |-> op, status |-> status, pk |-> pk,
     tarefa |-> tarefa, form |-> form]

editar_tarefa_carrega(p, metodo, pk, post) ==
    /\ pedidos[p].pc = "ocioso"
    /\ IF pk \notin DOMAIN tarefas
       THEN /\ pedidos' = [pedidos EXCEPT
                             ![p] = PedidoFeito("editar_tarefa", 404, pk,
                                                Tarefa, Ocioso.form)]
            /\ resp' = Resposta("editar_tarefa", 404, NULL, {}, <<>>)
       ELSE LET form == TarefaForm(post, categorias) IN
            IF metodo = "POST" /\ is_valid(form)
            THEN /\ pedidos' = [pedidos EXCEPT
                                  ![p] = [pc |-> "salvar",
                                          op |-> "editar_tarefa",
                                          status |-> 0, pk |-> pk,
                                          tarefa |-> tarefas[pk],
                                          form |-> form]]
                 /\ UNCHANGED resp
            ELSE /\ pedidos' = [pedidos EXCEPT
                                  ![p] = PedidoFeito("editar_tarefa", 200, pk,
                                                     tarefas[pk], form)]
                 /\ resp' = Resposta("editar_tarefa", 200, NULL,
                                     IF metodo = "POST" THEN form.erros
                                     ELSE {}, <<>>)
    /\ UNCHANGED <<tarefas, categorias, proxTarefa, proxCategoria, agora,
                   receptor>>

\* form.save(): the fields of the form are copied onto the loaded instance
\* and the instance is saved
editar_tarefa_salva(p) ==
    LET r == pedidos[p] IN
    /\ r.pc = "salvar"
    /\ r.op = "editar_tarefa"
    /\ tarefas' = Inserir(tarefas, r.pk,
                          save(form_fields(r.form, r.tarefa), agora))
    /\ pedidos' = [pedidos EXCEPT
                     ![p] = PedidoFeito(r.op, 302, r.pk, r.tarefa, r.form)]
    /\ resp' = Resposta("editar_tarefa", 302, r.pk, {}, <<>>)
    /\ UNCHANGED <<categorias, proxTarefa, proxCategoria, agora, receptor>>

alternar_status_carrega(p, pk) ==
    /\ pedidos[p].pc = "ocioso"
    /\ IF pk \notin DOMAIN tarefas
       THEN /\ pedidos' = [pedidos EXCEPT
                             ![p] = PedidoFeito("alternar_status", 404, pk,
                                                Tarefa, Ocioso.form)]
            /\ resp' = Resposta("alternar_status", 404, NULL, {}, <<>>)
       ELSE /\ pedidos' = [pedidos EXCEPT
                             ![p] = [pc |-> "salvar",
                                     op |-> "alternar_status",
                                     status |-> 0, pk |-> pk,
                                     tarefa |-> tarefas[pk],
                                     form |-> Ocioso.form]]
            /\ UNCHANGED resp
    /\ UNCHANGED <<tarefas, categorias, proxTarefa, proxCategoria, agora,
                   receptor>>

\* mutant: the instance is saved with update_fields=['concluida']
alternar_status_salva_mut(p) ==
    LET r == pedidos[p] IN
    /\ r.pc = "salvar"
    /\ r.op = "alternar_status"
    /\ r.pk \in DOMAIN tarefas
    /\ tarefas' = [tarefas EXCEPT ![r.pk].concluida = ~r.tarefa.concluida]
    /\ pedidos' = [pedidos EXCEPT
                     ![p] = PedidoFeito(r.op, 302, r.pk, r.tarefa, r.form)]
    /\ resp' = Resposta("alternar_status", 302, r.pk, {}, <<>>)
    /\ UNCHANGED <<categorias, proxTarefa, proxCategoria, agora, receptor>>

\* marcar_pendente() or marcar_concluida() on the loaded instance, chosen by
\* the concluida it was loaded with
alternar_status_salva(p) ==
    LET r == pedidos[p] IN
    /\ r.pc = "salvar"
    /\ r.op = "alternar_status"
    /\ tarefas' = Inserir(tarefas, r.pk,
                          IF r.tarefa.concluida
                          THEN marcar_pendente(r.tarefa, agora)
                          ELSE marcar_concluida(r.tarefa, agora))
    /\ pedidos' = [pedidos EXCEPT
                     ![p] = PedidoFeito(r.op, 302, r.pk, r.tarefa, r.form)]
    /\ resp' = Resposta("alternar_status", 302, r.pk, {}, <<>>)
    /\ UNCHANGED <<categorias, proxTarefa, proxCategoria, agora, receptor>>

\* Tarefa.Meta.ordering = ['-prioridade', '-criada_em']: row a sorts
\* strictly before row b
ordering(a, b) ==
    IF a.prioridade = b.prioridade
    THEN a.criada_em > b.criada_em
    ELSE StrLess(b.prioridade, a.prioridade)

\* the orders in which the database may return the rows with keys in pks:
\* the first row is one that no other row sorts before, and rows that
\* compare equal under Meta.ordering come in any order
RECURSIVE Ordenadas(_)
Ordenadas(pks) ==
    IF pks = {}
    THEN {<<>>}
    ELSE UNION {{<<k>> \o s : s \in Ordenadas(pks \ {k})} :
                   k \in {p \in pks :
                            \A q \in pks :
                               ~ordering(tarefas[q], tarefas[p])}}

\* mutant: the priority filter starts again from all the tasks
Filtradas_mut(filtro_status, filtro_prioridade, filtro_categoria) ==
    LET porStatus ==
            IF filtro_status = "pendentes"
            THEN {k \in DOMAIN tarefas : tarefas[k].concluida = FALSE}
            ELSE IF filtro_status = "concluidas"
            THEN {k \in DOMAIN tarefas : tarefas[k].concluida = TRUE}
            ELSE DOMAIN tarefas
        porPrioridade ==
            IF filtro_prioridade # <<>>
            THEN {k \in DOMAIN tarefas :
                     tarefas[k].prioridade = filtro_prioridade}
            ELSE porStatus
        categoria_id == ParseInt(filtro_categoria)
    IN IF filtro_categoria # <<>>
       THEN {k \in porPrioridade : tarefas[k].categoria = categoria_id}
       ELSE porPrioridade

\* the keys selected by the chained filters of lista_tarefas
Filtradas(filtro_status, filtro_prioridade, filtro_categoria) ==
    LET porStatus ==
            IF filtro_status = "pendentes"
            THEN {k \in DOMAIN tarefas : tarefas[k].concluida = FALSE}
            ELSE IF filtro_status = "concluidas"
            THEN {k \in DOMAIN tarefas : tarefas[k].concluida = TRUE}
            ELSE DOMAIN tarefas
        porPrioridade ==
            IF filtro_prioridade # <<>>
            THEN {k \in porStatus : tarefas[k].prioridade = filtro_prioridade}
            ELSE porStatus
        categoria_id == ParseInt(filtro_categoria)
    IN IF filtro_categoria # <<>>
       THEN {k \in porPrioridade : tarefas[k].categoria = categoria_id}
       ELSE porPrioridade

lista_tarefas(filtro_status, filtro_prioridade, filtro_categoria) ==
    /\ \E s \in Ordenadas(Filtradas(filtro_status, filtro_prioridade,
                                    filtro_categoria)) :
          resp' = Resposta("lista_tarefas", 200, NULL, {}, s)
    /\ UNCHANGED <<tarefas, categorias, proxTarefa, proxCategoria, agora, receptor, pedidos>>

\* the statistics of the home page, each computed by a query of its own
\* when the page is requested
estatisticas ==
    [total_tarefas |-> Cardinality(DOMAIN tarefas),
     tarefas_pendentes |->
         Cardinality({k \in DOMAIN tarefas : tarefas[k].concluida = FALSE}),
     tarefas_concluidas |->
         Cardinality({k \in DOMAIN tarefas : tarefas[k].concluida = TRUE}),
     tarefas_atrasadas |->
         Cardinality({k \in {j \in DOMAIN tarefas :
                                tarefas[j].concluida = FALSE} :
                         esta_atrasada(tarefas[k], agora)})]

\* Tarefa.objects.all()[:5]: the first rows of the table in the order of
\* Meta.ordering
ultimas_tarefas(ordem) ==
    SubSeq(ordem, 1, IF Len(ordem) < LimiteUltimas THEN Len(ordem)
                     ELSE LimiteUltimas)

\* mutant: the late tasks are counted by comparing the dates of all tasks
index_mut ==
    /\ \E ordem \in Ordenadas(DOMAIN tarefas) :
          resp' = [RespostaCom("index", 200, NULL,
                      [estatisticas EXCEPT
                          !.tarefas_atrasadas =
                              Cardinality({k \in DOMAIN tarefas :
                                  /\ tarefas[k].data_limite # NULL
                                  /\ Data(agora) > tarefas[k].data_limite})])
                   EXCEPT !.lista = ultimas_tarefas(ordem)]
    /\ UNCHANGED <<tarefas, categorias, proxTarefa, proxCategoria, agora,
                   receptor, pedidos>>

\* index: the context of the home page holds the statistics; the response
\* lists the keys of ultimas_tarefas in their order
index ==
    /\ \E ordem \in Ordenadas(DOMAIN tarefas) :
          resp' = [RespostaCom("index", 200, NULL, estatisticas)
                   EXCEPT !.lista = ultimas_tarefas(ordem)]
    /\ UNCHANGED <<tarefas, categorias, proxTarefa, proxCategoria, agora,
                   receptor, pedidos>>

\* an optional value of the JSON body: null, or the value v
Nenhum == <<>>
Algum(v) == <<v>>

\* the record api_tarefas serializes a row to
serializa(pk) ==
    [id |-> pk,
     titulo |-> tarefas[pk].titulo,
     descricao |-> tarefas[pk].descricao,
     concluida |-> tarefas[pk].concluida,
     prioridade |-> tarefas[pk].prioridade,
     categoria |-> IF tarefas[pk].categoria # NULL
                   THEN Algum(categorias[tarefas[pk].categoria].nome)
                   ELSE Nenhum,
     criada_em |-> isoformat(tarefas[pk].criada_em)]

\* mutant: only the pending tasks are exported
api_tarefas_mut ==
    /\ \E s \in Ordenadas({k \in DOMAIN tarefas : ~tarefas[k].concluida}) :
          resp' = RespostaCom("api_tarefas", 200, NULL,
                              [i \in DOMAIN s |-> serializa(s[i])])
    /\ UNCHANGED <<tarefas, categorias, proxTarefa, proxCategoria, agora,
                   receptor, pedidos>>

\* api_tarefas: the JSON list of the serialized rows of Tarefa.objects.all()
api_tarefas ==
    /\ \E s \in Ordenadas(DOMAIN tarefas) :
          resp' = RespostaCom("api_tarefas", 200, NULL,
                              [i \in DOMAIN s |-> serializa(s[i])])
    /\ UNCHANGED <<tarefas, categorias, proxTarefa, proxCategoria, agora,
                   receptor, pedidos>>

(***************************************************************************)
(* admin.py: Categoria is registered with the admin site, whose add form   *)
(* is the way a category is created by hand.                               *)
(***************************************************************************)
CategoriaAdmin_add(nome, cor) ==
    /\ categorias' = Inserir(categorias, proxCategoria,
                             [nome |-> nome, cor |-> cor])
    /\ proxCategoria' = proxCategoria + 1
    /\ resp' = Resposta("admin_categoria_add", 302, proxCategoria, {}, <<>>)
    /\ UNCHANGED <<tarefas, proxTarefa, agora, receptor, pedidos>>

\* mutant: on_delete=CASCADE, the tasks of the category are deleted with it
CategoriaAdmin_delete_mut(pk) ==
    /\ categorias' = Remover(categorias, pk)
    /\ tarefas' = [k \in {j \in DOMAIN tarefas : tarefas[j].categoria # pk}
                      |-> tarefas[k]]
    /\ resp' = RespostaCom("admin_categoria_delete", 302, pk,
                           {k \in DOMAIN tarefas : tarefas[k].categoria = pk})
    /\ UNCHANGED <<proxTarefa, proxCategoria, agora, receptor, pedidos>>

\* the delete view of CategoriaAdmin for a stored category: Tarefa.categoria
\* has on_delete=SET_NULL, so the collector writes NULL in the categoria of
\* the tasks of the category (an UPDATE, not a save()) and deletes the row;
\* the context of the response holds the keys of those tasks
CategoriaAdmin_delete(pk) ==
    /\ categorias' = Remover(categorias, pk)
    /\ tarefas' = [k \in DOMAIN tarefas |->
                      IF tarefas[k].categoria = pk
                      THEN [tarefas[k] EXCEPT !.categoria = NULL]
                      ELSE tarefas[k]]
    /\ resp' = RespostaCom("admin_categoria_delete", 302, pk,
                           {k \in DOMAIN tarefas : tarefas[k].categoria = pk})
    /\ UNCHANGED <<proxTarefa, proxCategoria, agora, receptor, pedidos>>

\* QuerySet.update(): the given columns are written in the rows of the
\* queryset with one UPDATE; Model.save() is not called, so the auto_now
\* column atualizada_em is not touched
update(queryset, colunas) ==
    [k \in DOMAIN tarefas |->
        IF k \in queryset
        THEN [campo \in DOMAIN tarefas[k] |->
                 IF campo \in DOMAIN colunas THEN colunas[campo]
                 ELSE tarefas[k][campo]]
        ELSE tarefas[k]]

\* TarefaAdmin.marcar_como_concluida
marcar_como_concluida(queryset) ==
    /\ tarefas' = update(queryset,
                         [concluida |-> TRUE, concluida_em |-> agora])
    /\ resp' = Resposta("marcar_como_concluida", 302, NULL, {}, <<>>)
    /\ UNCHANGED <<categorias, proxTarefa, proxCategoria, agora, receptor, pedidos>>

\* mutant: the completion flag is cleared and concluida_em is left as it was
marcar_como_pendente_mut(queryset) ==
    /\ tarefas' = update(queryset, [concluida |-> FALSE])
    /\ resp' = Resposta("marcar_como_pendente", 302, NULL, {}, <<>>)
    /\ UNCHANGED <<categorias, proxTarefa, proxCategoria, agora, receptor, pedidos>>

\* TarefaAdmin.marcar_como_pendente
marcar_como_pendente(queryset) ==
    /\ tarefas' = update(queryset,
                         [concluida |-> FALSE, concluida_em |-> NULL])
    /\ resp' = Resposta("marcar_como_pendente", 302, NULL, {}, <<>>)
    /\ UNCHANGED <<categorias, proxTarefa, proxCategoria, agora, receptor, pedidos>>

\* TarefaAdmin.definir_prioridade_alta
definir_prioridade_alta(queryset) ==
    /\ tarefas' = update(queryset, [prioridade |-> PRIORIDADE_ALTA])
    /\ resp' = Resposta("definir_prioridade_alta", 302, NULL, {}, <<>>)
    /\ UNCHANGED <<categorias, proxTarefa, proxCategoria, agora, receptor, pedidos>>

\* TarefaAdmin.changelist_view with list_editable = ['concluida']: the
\* change list is posted with the checkbox ticked in the rows of marcadas;
\* the form of every row whose value changed is saved with Model.save(),
\* which writes concluida and refreshes atualizada_em; concluida_em is not
\* a field of the row's form and keeps its value
changelist_view(marcadas) ==
    /\ tarefas' = [k \in DOMAIN tarefas |->
                     IF tarefas[k].concluida # (k \in marcadas)
                     THEN save([tarefas[k] EXCEPT
                                   !.concluida = (k \in marcadas)], agora)
                     ELSE tarefas[k]]
    /\ resp' = Resposta("changelist_view", 302, NULL, {}, <<>>)
    /\ UNCHANGED <<categorias, proxTarefa, proxCategoria, agora, receptor, pedidos>>

(***************************************************************************)
(* Requests.                                                               *)
(***************************************************************************)
Post(titulo, descricao, prioridade, categoria, data_limite) ==
    [titulo |-> titulo, descricao |-> descricao, prioridade |-> prioridade,
     categoria |-> categoria, data_limite |-> data_limite]

\* a create request that would insert is only issued below the bound max
Cabe(post, max) ==
    is_valid(TarefaForm(post, categorias)) => proxTarefa <= max

(***************************************************************************)
(* Spec: the task life cycle.  Forms are posted to the create view and to  *)
(* the update view of stored tasks, stored tasks are deleted and toggled,  *)
(* and time passes.                                                        *)
(***************************************************************************)
PostsCiclo ==
    {Post(<<"a", "b", "c">>, <<>>, PRIORIDADE_MEDIA, <<>>, NULL),
     Post(<<" ", "a", "1", "b">>, <<"d">>, PRIORIDADE_ALTA, <<>>, NULL),
     Post(<<"a", "b", "c">>, <<>>, PRIORIDADE_ALTA, <<>>, NULL)}

CriarTarefa ==
    \E post \in PostsCiclo :
        Cabe(post, MaxTarefas) /\ criar_tarefa("POST", post)

EditarTarefa ==
    \E pk \in DOMAIN tarefas, post \in PostsCiclo :
        editar_tarefa("POST", pk, post)

ExcluirTarefa == \E pk \in DOMAIN tarefas : excluir_tarefa("POST", pk)

AlternarStatus == \E pk \in DOMAIN tarefas : alternar_status(pk)

Next ==
    \/ Tick
    \/ CriarTarefa
    \/ EditarTarefa
    \/ ExcluirTarefa
    \/ AlternarStatus

Spec == Init /\ [][Next]_vars

(***************************************************************************)
(* Properties of the life cycle (checked under Spec).                      *)
(***************************************************************************)

\* C1: in every state reached by create, update, delete and toggle, every
\* task has concluida_em set if and only if concluida is true.
C1_Invariante ==
    \A k \in DOMAIN tarefas :
        (tarefas[k].concluida_em # NULL) <=> tarefas[k].concluida

\* a toggle has just completed a task that an update then left completed
C1_Witness ==
    /\ resp.op = "editar_tarefa" /\ resp.status = 302
    /\ tarefas[resp.pk].concluida
    /\ tarefas[resp.pk].concluida_em # NULL

\* C3: a toggle of an existing task negates concluida; concluida_em becomes
\* the current time when the task becomes completed and NULL when it becomes
\* pending; a second toggle right after the toggle of a pending task leaves
\* it pending with concluida_em NULL.
C3_Alternar ==
    [][(resp'.op = "alternar_status" /\ resp'.status = 302) =>
         \A pk \in DOMAIN tarefas :
           alternar_status(pk) =>
             /\ pk \in DOMAIN tarefas'
             /\ tarefas'[pk].concluida = ~tarefas[pk].concluida
             /\ tarefas'[pk].concluida => tarefas'[pk].concluida_em = agora
             /\ ~tarefas'[pk].concluida => tarefas'[pk].concluida_em = NULL
             /\ (/\ resp.op = "alternar_status" /\ resp.status = 302
                 /\ resp.pk = pk /\ tarefas[pk].concluida)
                => /\ ~tarefas'[pk].concluida
                   /\ tarefas'[pk].concluida_em = NULL]_vars

\* a task created at time 0 was completed by a toggle at a later time
C3_Witness ==
    /\ resp.op = "alternar_status" /\ resp.status = 302
    /\ tarefas[resp.pk].concluida
    /\ tarefas[resp.pk].criada_em < tarefas[resp.pk].concluida_em
    /\ tarefas[resp.pk].concluida_em = agora

\* a form that asks for high priority without a description
AltaSemDescricao(post) ==
    post.prioridade = PRIORIDADE_ALTA /\ post.descricao = <<>>

\* C5: a create or update posted with priority alta and an empty
\* description is answered with an error on the descricao field and stores
\* nothing, and every stored task of priority alta has a description.
C5_AltaExigeDescricao ==
    /\ [](\A k \in DOMAIN tarefas :
             tarefas[k].prioridade = PRIORIDADE_ALTA
                => tarefas[k].descricao # <<>>)
    /\ [][\A post \in {p \in PostsCiclo : AltaSemDescricao(p)} :
             /\ (resp'.op = "criar_tarefa" /\ criar_tarefa("POST", post))
                => /\ resp'.status = 200 /\ "descricao" \in resp'.erros
                   /\ tarefas' = tarefas
             /\ \A pk \in DOMAIN tarefas :
                  (resp'.op = "editar_tarefa" /\ editar_tarefa("POST", pk, post))
                  => /\ resp'.status = 200 /\ "descricao" \in resp'.erros
                     /\ tarefas' = tarefas]_vars

\* an update to priority alta without description was refused for a task
\* while another task of priority alta is stored
C5_Witness ==
    /\ resp.op = "editar_tarefa" /\ resp.status = 200
    /\ "descricao" \in resp.erros
    /\ \E k \in DOMAIN tarefas : tarefas[k].prioridade = PRIORIDADE_MEDIA
    /\ \E k \in DOMAIN tarefas : tarefas[k].prioridade = PRIORIDADE_ALTA

\* C10: a successful update of a task keeps its key, criada_em, concluida
\* and concluida_em, and changes no other task.
C10_EditarPreserva ==
    [][\A pk \in DOMAIN tarefas, post \in PostsCiclo :
          (/\ resp'.op = "editar_tarefa" /\ resp'.status = 302
           /\ resp'.pk = pk /\ editar_tarefa("POST", pk, post)) =>
            /\ DOMAIN tarefas' = DOMAIN tarefas
            /\ tarefas'[pk].criada_em = tarefas[pk].criada_em
            /\ tarefas'[pk].concluida = tarefas[pk].concluida
            /\ tarefas'[pk].concluida_em = tarefas[pk].concluida_em
            /\ \A k \in DOMAIN tarefas \ {pk} : tarefas'[k] = tarefas[k]]_vars

\* a completed task was updated later than it was created, next to another
\* task
C10_Witness ==
    /\ resp.op = "editar_tarefa" /\ resp.status = 302
    /\ tarefas[resp.pk].concluida
    /\ tarefas[resp.pk].atualizada_em > tarefas[resp.pk].criada_em
    /\ tarefas[resp.pk].titulo = <<"a", "1", "b">>
    /\ Cardinality(DOMAIN tarefas) = 2

(***************************************************************************)
(* SpecTitulo: titles posted to the create view of an empty store.         *)
(***************************************************************************)
Alfabeto == {"a", "1", " "}

Repete(c, n) == [i \in 1..n |-> c]

\* every text over Alfabeto of at most MaxTitulo characters, the titles of
\* TarefaFormTest and texts around the column's max_length
TitulosPostados ==
    UNION {[1..n -> Alfabeto] : n \in 0..MaxTitulo}
    \cup {<<"a", "b">>, <<"a", "b", "c">>, <<"1", "2", "3">>, <<"a", "1", "b">>}
    \cup {Repete("a", TITULO_MAX_LENGTH - 1), Repete("a", TITULO_MAX_LENGTH),
          Repete("a", TITULO_MAX_LENGTH + 1),
          <<" ">> \o Repete("a", TITULO_MAX_LENGTH) \o <<" ">>,
          Repete("1", TITULO_MAX_LENGTH + 1)}

PostTitulo(titulo) == Post(titulo, <<"d">>, PRIORIDADE_MEDIA, <<>>, NULL)

CriarTitulo ==
    /\ tarefas = <<>>
    /\ \E titulo \in TitulosPostados : criar_tarefa("POST", PostTitulo(titulo))

NextTitulo ==
    \/ Tick
    \/ CriarTitulo

SpecTitulo == Init /\ [][NextTitulo]_vars

\* the rule of the claim: the trimmed title has 3 to 200 characters and is
\* not made of digits only
TituloAceitavel(titulo) ==
    LET t == Strip(titulo) IN
    /\ Len(t) >= 3
    /\ Len(t) <= 200
    /\ \E i \in 1..Len(t) : t[i] \notin Digitos

\* C6: create accepts a title exactly when, trimmed, it has 3 to 200
\* characters and is not all digits; a rejected title is reported on the
\* titulo field and nothing is stored; "ab", "123", "" and a 201-character
\* title are rejected, "abc" and "a1b" are accepted.
C6_Titulo ==
    [][\A titulo \in TitulosPostados :
          criar_tarefa("POST", PostTitulo(titulo)) =>
            /\ (resp'.status = 302) <=> TituloAceitavel(titulo)
            /\ resp'.status = 302
               => /\ resp'.pk \in DOMAIN tarefas' \ DOMAIN tarefas
                  /\ tarefas'[resp'.pk].titulo = Strip(titulo)
            /\ resp'.status # 302
               => /\ resp'.status = 200 /\ "titulo" \in resp'.erros
                  /\ tarefas' = tarefas
            /\ titulo \in {<<"a", "b">>, <<"1", "2", "3">>, <<>>,
                           Repete("a", 201)}
               => resp'.status = 200
            /\ titulo \in {<<"a", "b", "c">>, <<"a", "1", "b">>}
               => resp'.status = 302]_vars

\* a title of exactly 200 characters between blanks was accepted and stored
\* trimmed
C6_Witness ==
    /\ resp.op = "criar_tarefa" /\ resp.status = 302
    /\ Len(tarefas[resp.pk].titulo) = 200

(***************************************************************************)
(* SpecAtraso: one task is created with or without a due date, its due     *)
(* date is edited and it is toggled while the days pass.                   *)
(***************************************************************************)
\* the clock of this specification runs over whole days
FimDosDias == MaxRelogio * TicksPorDia

Prazos == {NULL} \cup 0..Data(FimDosDias)

PostPrazo(data_limite) ==
    Post(<<"a", "b", "c">>, <<>>, PRIORIDADE_MEDIA, <<>>, data_limite)

PassaDia == Passa(FimDosDias)

CriarComPrazo ==
    /\ tarefas = <<>>
    /\ \E data_limite \in Prazos : criar_tarefa("POST", PostPrazo(data_limite))

EditarPrazo ==
    \E pk \in DOMAIN tarefas, data_limite \in Prazos :
        editar_tarefa("POST", pk, PostPrazo(data_limite))

NextAtraso ==
    \/ PassaDia
    \/ CriarComPrazo
    \/ EditarPrazo
    \/ AlternarStatus

SpecAtraso == Init /\ [][NextAtraso]_vars

\* C7: a task is late exactly when it has a due date, the due date is
\* before today and the task is not completed; toggling a late task to
\* completed makes it not late.
C7_Atrasada ==
    /\ [](\A k \in DOMAIN tarefas :
             esta_atrasada(tarefas[k], agora)
             <=> /\ tarefas[k].data_limite # NULL
                 /\ tarefas[k].data_limite < Data(agora)
                 /\ tarefas[k].concluida = FALSE)
    /\ [][\A pk \in DOMAIN tarefas :
             (alternar_status(pk) /\ esta_atrasada(tarefas[pk], agora))
             => /\ tarefas'[pk].concluida
                /\ ~esta_atrasada(tarefas'[pk], agora')]_vars

\* a late task was completed by a toggle and is no longer late
C7_Witness ==
    /\ resp.op = "alternar_status" /\ resp.status = 302
    /\ tarefas[resp.pk].concluida
    /\ tarefas[resp.pk].data_limite # NULL
    /\ tarefas[resp.pk].data_limite < Data(agora)
    /\ ~esta_atrasada(tarefas[resp.pk], agora)

(***************************************************************************)
(* SpecOrdem: tasks of the three priorities are created at different       *)
(* times and the list view is requested without filters.                   *)
(***************************************************************************)
CriarComPrioridade ==
    \E prioridade \in PRIORIDADES :
        LET post == Post(<<"a", "b", "c">>, <<"d">>, prioridade, <<>>, NULL)
        IN Cabe(post, MaxTarefas) /\ criar_tarefa("POST", post)

\* request.GET without parameters: the defaults of lista_tarefas
ListarTodas == lista_tarefas("todas", <<>>, <<>>)

NextOrdem ==
    \/ Tick
    \/ CriarComPrioridade
    \/ ListarTodas

SpecOrdem == Init /\ [][NextOrdem]_vars

\* the order of the priorities the claim states: alta, then media, then
\* baixa
Importancia(prioridade) ==
    CASE prioridade = PRIORIDADE_ALTA -> 3
      [] prioridade = PRIORIDADE_MEDIA -> 2
      [] prioridade = PRIORIDADE_BAIXA -> 1

\* C2: the unfiltered list holds every task, ordered by priority alta,
\* media, baixa and within one priority by creation time descending.
C2_OrdemPadrao ==
    resp.op = "lista_tarefas" =>
      /\ {resp.lista[i] : i \in DOMAIN resp.lista} = DOMAIN tarefas
      /\ \A i, j \in DOMAIN resp.lista :
            i < j =>
              LET a == tarefas[resp.lista[i]]
                  b == tarefas[resp.lista[j]]
              IN /\ Importancia(a.prioridade) >= Importancia(b.prioridade)
                 /\ a.prioridade = b.prioridade => a.criada_em >= b.criada_em

(***************************************************************************)
(* SpecLista: a category is created in the admin, tasks of two priorities  *)
(* with and without the category are created and toggled, and the list     *)
(* view is requested with every combination of filters.                    *)
(***************************************************************************)
CriarCategoria ==
    /\ proxCategoria <= MaxCategorias
    /\ CategoriaAdmin_add(<<"T">>, "primary")

PostsLista ==
    {Post(<<"a", "b", "c">>, <<"d">>, prioridade, categoria, NULL) :
        prioridade \in {PRIORIDADE_ALTA, PRIORIDADE_BAIXA},
        categoria \in {<<>>, <<"1">>}}

CriarFiltravel ==
    \E post \in PostsLista :
        Cabe(post, MaxTarefas) /\ criar_tarefa("POST", post)

FiltrosStatus == {"todas", "pendentes", "concluidas"}
FiltrosPrioridade == {<<>>, PRIORIDADE_ALTA, PRIORIDADE_BAIXA}
FiltrosCategoria == {<<>>, <<"1">>}

Listar ==
    \E fs \in FiltrosStatus, fp \in FiltrosPrioridade, fc \in FiltrosCategoria :
        lista_tarefas(fs, fp, fc)

NextLista ==
    \/ CriarCategoria
    \/ CriarFiltravel
    \/ AlternarStatus
    \/ Listar

SpecLista == Init /\ [][NextLista]_vars

\* the tasks that satisfy every non-empty option of the filter
Satisfazem(fs, fp, fc) ==
    LET categoria_id == ParseInt(fc)
    IN {k \in DOMAIN tarefas :
          /\ fs = "pendentes" => tarefas[k].concluida = FALSE
          /\ fs = "concluidas" => tarefas[k].concluida = TRUE
          /\ fp # <<>> => tarefas[k].prioridade = fp
          /\ fc # <<>> => tarefas[k].categoria = categoria_id}

\* C4: the list view returns exactly the tasks that satisfy all the
\* non-empty filter options, each of them once.
C4_Filtros ==
    [][resp'.op = "lista_tarefas" =>
         \A fs \in FiltrosStatus, fp \in FiltrosPrioridade,
            fc \in FiltrosCategoria :
           lista_tarefas(fs, fp, fc) =>
             /\ {resp'.lista[i] : i \in DOMAIN resp'.lista}
                = Satisfazem(fs, fp, fc)
             /\ \A i, j \in DOMAIN resp'.lista :
                   i # j => resp'.lista[i] # resp'.lista[j]]_vars

\* of a completed and a pending task of the same priority and category the
\* list kept one
C4_Witness ==
    /\ resp.op = "lista_tarefas"
    /\ Len(resp.lista) = 1
    /\ \E j, k \in DOMAIN tarefas :
          /\ tarefas[j].concluida /\ ~tarefas[k].concluida
          /\ tarefas[j].prioridade = tarefas[k].prioridade
          /\ tarefas[j].categoria = tarefas[k].categoria
          /\ tarefas[j].categoria # NULL

(***************************************************************************)
(* signals.py: the receiver of post_migrate that stores the study guide.   *)
(***************************************************************************)
\* TAREFAS_ESTUDO: the titles, priorities and categories of the study guide.
\* A text is the sequence of its characters; a character outside ASCII is
\* written as the name of its code point.  The guide text of a step, which
\* is never empty, is shortened to one character.
TAREFAS_ESTUDO ==
    <<
      [titulo |->
         <<"U+1F4DA", " ", "P", "a", "s", "s", "o", " ", "1", ":", " ", "E",
           "n", "t", "e", "n", "d", "e", "r", " ", "a", " ", "e", "s", "t",
           "r", "u", "t", "u", "r", "a", " ", "d", "o", " ", "p", "r", "o",
           "j", "e", "t", "o", " ", "D", "j", "a", "n", "g", "o">>,
       descricao |-> <<"d">>,
       prioridade |-> PRIORIDADE_ALTA,
       categoria_nome |->
         <<"U+1F393", " ", "F", "u", "n", "d", "a", "m", "e", "n", "t", "o",
           "s">>,
       categoria_cor |-> "primary"],
      [titulo |->
         <<"U+1F4DA", " ", "P", "a", "s", "s", "o", " ", "2", ":", " ", "E",
           "n", "t", "e", "n", "d", "e", "r", " ", "o", " ", "a", "r", "q",
           "u", "i", "v", "o", " ", "s", "e", "t", "t", "i", "n", "g", "s",
           ".", "p", "y">>,
       descricao |-> <<"d">>,
       prioridade |-> PRIORIDADE_ALTA,
       categoria_nome |->
         <<"U+1F393", " ", "F", "u", "n", "d", "a", "m", "e", "n", "t", "o",
           "s">>,
       categoria_cor |-> "primary"],
      [titulo |->
         <<"U+1F5C3", "U+FE0F", " ", "P", "a", "s", "s", "o", " ", "3", ":",
           " ", "E", "s", "t", "u", "d", "a", "r", " ", "o", "s", " ", "M",
           "o", "d", "e", "l", "s", " ", "(", "m", "o", "d", "e", "l", "s",
           ".", "p", "y", ")">>,
       descricao |-> <<"d">>,
       prioridade |-> PRIORIDADE_ALTA,
       categoria_nome |->
         <<"U+1F5C3", "U+FE0F", " ", "M", "o", "d", "e", "l", "s", " ", "e",
           " ", "O", "R", "M">>,
       categoria_cor |-> "warning"],
      [titulo |->
         <<"U+1F5C3", "U+FE0F", " ", "P", "a", "s", "s", "o", " ", "4", ":",
           " ", "P", "r", "a", "t", "i", "c", "a", "r", " ", "c", "o", "n",
           "s", "u", "l", "t", "a", "s", " ", "n", "o", " ", "D", "j", "a",
           "n", "g", "o", " ", "S", "h", "e", "l", "l">>,
       descricao |-> <<"d">>,
       prioridade |-> PRIORIDADE_ALTA,
       categoria_nome |->
         <<"U+1F5C3", "U+FE0F", " ", "M", "o", "d", "e", "l", "s", " ", "e",
           " ", "O", "R", "M">>,
       categoria_cor |-> "warning"],
      [titulo |->
         <<"U+1F517", " ", "P", "a", "s", "s", "o", " ", "5", ":", " ", "E",
           "n", "t", "e", "n", "d", "e", "r", " ", "o", " ", "s", "i", "s",
           "t", "e", "m", "a", " ", "d", "e", " ", "U", "R", "L", "s">>,
       descricao |-> <<"d">>,
       prioridade |-> PRIORIDADE_MEDIA,
       categoria_nome |->
         <<"U+1F517", " ", "U", "R", "L", "s", " ", "e", " ", "V", "i", "e",
           "w", "s">>,
       categoria_cor |-> "info"],
      [titulo |->
         <<"U+1F517", " ", "P", "a", "s", "s", "o", " ", "6", ":", " ", "E",
           "s", "t", "u", "d", "a", "r", " ", "a", "s", " ", "V", "i", "e",
           "w", "s", " ", "(", "v", "i", "e", "w", "s", ".", "p", "y", ")">>,
       descricao |-> <<"d">>,
       prioridade |-> PRIORIDADE_MEDIA,
       categoria_nome |->
         <<"U+1F517", " ", "U", "R", "L", "s", " ", "e", " ", "V", "i", "e",
           "w", "s">>,
       categoria_cor |-> "info"],
      [titulo |->
         <<"U+1F3A8", " ", "P", "a", "s", "s", "o", " ", "7", ":", " ", "E",
           "n", "t", "e", "n", "d", "e", "r", " ", "o", " ", "s", "i", "s",
           "t", "e", "m", "a", " ", "d", "e", " ", "T", "e", "m", "p", "l",
           "a", "t", "e", "s">>,
       descricao |-> <<"d">>,
       prioridade |-> PRIORIDADE_MEDIA,
       categoria_nome |->
         <<"U+1F3A8", " ", "T", "e", "m", "p", "l", "a", "t", "e", "s">>,
       categoria_cor |-> "success"],
      [titulo |->
         <<"U+1F3A8", " ", "P", "a", "s", "s", "o", " ", "8", ":", " ", "E",
           "s", "t", "u", "d", "a", "r", " ", "o", " ", "t", "e", "m", "p",
           "l", "a", "t", "e", " ", "b", "a", "s", "e", ".", "h", "t", "m",
           "l">>,
       descricao |-> <<"d">>,
       prioridade |-> PRIORIDADE_MEDIA,
       categoria_nome |->
         <<"U+1F3A8", " ", "T", "e", "m", "p", "l", "a", "t", "e", "s">>,
       categoria_cor |-> "success"],
      [titulo |->
         <<"U+1F4DD", " ", "P", "a", "s", "s", "o", " ", "9", ":", " ", "E",
           "n", "t", "e", "n", "d", "e", "r", " ", "o", "s", " ", "F", "o",
           "r", "m", "u", "l", "U+00E1", "r", "i", "o", "s", " ", "(", "f",
           "o", "r", "m", "s", ".", "p", "y", ")">>,
       descricao |-> <<"d">>,
       prioridade |-> PRIORIDADE_MEDIA,
       categoria_nome |->
         <<"U+1F4DD", " ", "F", "o", "r", "m", "u", "l", "U+00E1", "r", "i",
           "o", "s">>,
       categoria_cor |-> "secondary"],
      [titulo |->
         <<"U+2699", "U+FE0F", " ", "P", "a", "s", "s", "o", " ", "1", "0",
           ":", " ", "E", "x", "p", "l", "o", "r", "a", "r", " ", "o", " ",
           "D", "j", "a", "n", "g", "o", " ", "A", "d", "m", "i", "n">>,
       descricao |-> <<"d">>,
       prioridade |-> PRIORIDADE_BAIXA,
       categoria_nome |->
         <<"U+2699", "U+FE0F", " ", "A", "d", "m", "i", "n", "i", "s", "t",
           "r", "a", "U+00E7", "U+00E3", "o">>,
       categoria_cor |-> "danger"],
      [titulo |->
         <<"U+1F680", " ", "P", "a", "s", "s", "o", " ", "1", "1", ":", " ",
           "E", "n", "t", "e", "n", "d", "e", "r", " ", "o", "s", " ", "S",
           "i", "g", "n", "a", "l", "s", " ", "(", "s", "i", "g", "n", "a",
           "l", "s", ".", "p", "y", ")">>,
       descricao |-> <<"d">>,
       prioridade |-> PRIORIDADE_BAIXA,
       categoria_nome |->
         <<"U+1F680", " ", "A", "v", "a", "n", "U+00E7", "a", "d", "o">>,
       categoria_cor |-> "danger"],
      [titulo |->
         <<"U+1F680", " ", "P", "a", "s", "s", "o", " ", "1", "2", ":", " ",
           "A", "r", "q", "u", "i", "v", "o", "s", " ", "E", "s", "t",
           "U+00E1", "t", "i", "c", "o", "s", " ", "(", "C", "S", "S", ",",
           " ", "J", "S", ")">>,
       descricao |-> <<"d">>,
       prioridade |-> PRIORIDADE_BAIXA,
       categoria_nome |->
         <<"U+1F680", " ", "A", "v", "a", "n", "U+00E7", "a", "d", "o">>,
       categoria_cor |-> "danger"],
      [titulo |->
         <<"U+1F680", " ", "P", "a", "s", "s", "o", " ", "1", "3", ":", " ",
           "M", "i", "g", "r", "a", "U+00E7", "U+00F5", "e", "s", " ", "d",
           "o", " ", "D", "j", "a", "n", "g", "o">>,
       descricao |-> <<"d">>,
       prioridade |-> PRIORIDADE_BAIXA,
       categoria_nome |->
         <<"U+1F680", " ", "A", "v", "a", "n", "U+00E7", "a", "d", "o">>,
       categoria_cor |-> "danger"],
      [titulo |->
         <<"U+1F3AF", " ", "P", "a", "s", "s", "o", " ", "1", "4", ":", " ",
           "D", "e", "s", "a", "f", "i", "o", " ", "F", "i", "n", "a", "l",
           " ", "-", " ", "C", "r", "i", "e", " ", "s", "u", "a", " ", "p",
           "r", "U+00F3", "p", "r", "i", "a", " ", "f", "u", "n", "c", "i",
           "o", "n", "a", "l", "i", "d", "a", "d", "e", "!">>,
       descricao |-> <<"d">>,
       prioridade |-> PRIORIDADE_ALTA,
       categoria_nome |->
         <<"U+1F3AF", " ", "P", "r", "o", "j", "e", "t", "o", " ", "F", "i",
           "n", "a", "l">>,
       categoria_cor |-> "success"]
    >>

\* the prefix searched by titulo__startswith
MARCADOR == <<"U+1F4DA", " ", "P", "a", "s", "s", "o", " ", "1", ":">>

\* mutant: only the last argument of the command line is compared
modo_teste_mut(argv) == argv[Len(argv)] = "test"

\* 'test' in sys.argv
modo_teste(argv) == \E i \in DOMAIN argv : argv[i] = "test"

\* Tarefa.objects.filter(titulo__startswith=...).exists()
tarefa_existente(tars) ==
    \E k \in DOMAIN tars : StartsWith(tars[k].titulo, MARCADOR)

\* the loop over TAREFAS_ESTUDO from entry i on.  e holds the tables, the
\* next keys, categorias_cache, the keys of the tasks created so far and the
\* exception that ended the loop.  Categoria.objects.get_or_create returns
\* the only category with the name, creates one when there is none and
\* raises MultipleObjectsReturned when there are several; the rows stored
\* before the exception stay stored.
RECURSIVE popular_de(_, _, _)
popular_de(i, e, ts) ==
    IF i > Len(TAREFAS_ESTUDO) \/ e.erro # {}
    THEN e
    ELSE
      LET dados == TAREFAS_ESTUDO[i]
          cat_nome == dados.categoria_nome
          achadas == {k \in DOMAIN e.categorias :
                         e.categorias[k].nome = cat_nome}
          criar == cat_nome # <<>> /\ cat_nome \notin DOMAIN e.cache
                   /\ achadas = {}
          varias == cat_nome # <<>> /\ cat_nome \notin DOMAIN e.cache
                    /\ Cardinality(achadas) > 1
          categoria ==
              IF cat_nome = <<>> THEN NULL
              ELSE IF cat_nome \in DOMAIN e.cache THEN e.cache[cat_nome]
              ELSE IF criar THEN e.proxCategoria
              ELSE CHOOSE k \in achadas : TRUE
          tarefa == [Tarefa EXCEPT !.titulo = dados.titulo,
                                   !.descricao = dados.descricao,
                                   !.prioridade = dados.prioridade,
                                   !.categoria = categoria,
                                   !.concluida = FALSE]
      IN IF varias
         THEN [e EXCEPT !.erro = {"MultipleObjectsReturned"}]
         ELSE popular_de(i + 1,
                [tarefas |-> Inserir(e.tarefas, e.proxTarefa,
                                     insert(tarefa, ts)),
                 categorias |->
                     IF criar
                     THEN Inserir(e.categorias, e.proxCategoria,
                                  [nome |-> cat_nome,
                                   cor |-> dados.categoria_cor])
                     ELSE e.categorias,
                 proxTarefa |-> e.proxTarefa + 1,
                 proxCategoria |->
                     IF criar THEN e.proxCategoria + 1 ELSE e.proxCategoria,
                 cache |-> IF cat_nome = <<>> THEN e.cache
                           ELSE Inserir(e.cache, cat_nome, categoria),
                 criadas |-> Append(e.criadas, e.proxTarefa),
                 erro |-> {}],
                ts)

\* the receiver, called with the application that finished migrating and
\* the command line of the process.  The response holds the branch by which
\* the receiver left (erros) and the keys of the tasks it created (lista).
popular_tarefas_estudo(sender, argv) ==
    LET e == popular_de(1, [tarefas |-> tarefas, categorias |-> categorias,
                            proxTarefa |-> proxTarefa,
                            proxCategoria |-> proxCategoria,
                            cache |-> <<>>, criadas |-> <<>>, erro |-> {}],
                        agora)
        saida == IF sender # "tarefas" THEN {"sender"}
                 ELSE IF modo_teste(argv) THEN {"test"}
                 ELSE IF tarefa_existente(tarefas) THEN {"tarefa_existente"}
                 ELSE {}
    IN IF saida # {}
       THEN /\ resp' = Resposta("popular_tarefas_estudo", 0, NULL, saida, <<>>)
            /\ UNCHANGED <<tarefas, categorias, proxTarefa, proxCategoria,
                           agora, receptor, pedidos>>
       ELSE /\ tarefas' = e.tarefas
            /\ categorias' = e.categorias
            /\ proxTarefa' = e.proxTarefa
            /\ proxCategoria' = e.proxCategoria
            /\ resp' = Resposta("popular_tarefas_estudo", 0, NULL, e.erro,
                                e.criadas)
            /\ UNCHANGED <<agora, receptor, pedidos>>

\* the start of the receiver in process p, up to and including the query
\* tarefa_existente: the receiver leaves by one of its three returns, or
\* goes on to the loop
popular_verifica(p, sender, argv) ==
    LET saida == IF sender # "tarefas" THEN {"sender"}
                 ELSE IF modo_teste(argv) THEN {"test"}
                 ELSE IF tarefa_existente(tarefas) THEN {"tarefa_existente"}
                 ELSE {}
    IN /\ receptor[p].pc = "parado"
       /\ receptor' = [receptor EXCEPT
                         ![p] = [pc |-> IF saida = {} THEN "laco" ELSE "fim",
                                 saida |-> saida, criadas |-> <<>>]]
       /\ resp' = IF saida = {} THEN resp
                  ELSE Resposta("popular_tarefas_estudo", 0, NULL, saida, <<>>)
       /\ UNCHANGED <<tarefas, categorias, proxTarefa, proxCategoria, agora,
                      pedidos>>

\* the loop of the receiver in process p, which is not in a transaction
\* with the query before it: it inserts whatever other processes stored
\* since.  The inserts of one run are taken as one step.
popular_laco(p) ==
    LET e == popular_de(1, [tarefas |-> tarefas, categorias |-> categorias,
                            proxTarefa |-> proxTarefa,
                            proxCategoria |-> proxCategoria,
                            cache |-> <<>>, criadas |-> <<>>, erro |-> {}],
                        agora)
    IN /\ receptor[p].pc = "laco"
       /\ tarefas' = e.tarefas
       /\ categorias' = e.categorias
       /\ proxTarefa' = e.proxTarefa
       /\ proxCategoria' = e.proxCategoria
       /\ receptor' = [receptor EXCEPT
                         ![p] = [pc |-> "fim", saida |-> e.erro,
                                 criadas |-> e.criadas]]
       /\ resp' = Resposta("popular_tarefas_estudo", 0, NULL, e.erro,
                           e.criadas)
       /\ UNCHANGED <<agora, pedidos>>

(***************************************************************************)
(* SpecSeed: categories are added in the admin, a task is created, and     *)
(* post_migrate is sent for two applications under several command lines.  *)
(***************************************************************************)
NomesAdmin == {<<"T">>, TAREFAS_ESTUDO[3].categoria_nome}

CriarCategoriaGuia ==
    /\ proxCategoria <= MaxCategorias
    /\ \E nome \in NomesAdmin : CategoriaAdmin_add(nome, "primary")

CriarAntes ==
    LET post == Post(<<"a", "b", "c">>, <<>>, PRIORIDADE_MEDIA, <<>>, NULL)
    IN Cabe(post, MaxTarefas) /\ criar_tarefa("POST", post)

Remetentes == {"tarefas", "auth"}

Argvs ==
    {<<"manage.py", "migrate">>, <<"manage.py", "test">>,
     <<"manage.py", "test", "tarefas">>}

Semear ==
    \E sender \in Remetentes, argv \in Argvs :
        popular_tarefas_estudo(sender, argv)

NextSeed ==
    \/ Tick
    \/ CriarCategoriaGuia
    \/ CriarAntes
    \/ Semear

SpecSeed == Init /\ [][NextSeed]_vars

\* C8: a call of the seed routine on a store without the sentinel task
\* inserts the fixed list, once and in its order, and a call on a store with
\* the sentinel task changes neither the tasks nor the categories; so two
\* calls in sequence leave exactly one set of seeded records.
C8_SemearDuasVezes ==
    [][resp'.op = "popular_tarefas_estudo" =>
         \A argv \in Argvs :
           ((\A i \in DOMAIN argv : argv[i] # "test")
            /\ popular_tarefas_estudo("tarefas", argv)) =>
             IF \E k \in DOMAIN tarefas : StartsWith(tarefas[k].titulo, MARCADOR)
             THEN UNCHANGED <<tarefas, categorias>>
             ELSE /\ DOMAIN tarefas'
                     = DOMAIN tarefas
                       \cup (proxTarefa..(proxTarefa + Len(TAREFAS_ESTUDO) - 1))
                  /\ \A k \in DOMAIN tarefas : tarefas'[k] = tarefas[k]
                  /\ \A i \in DOMAIN TAREFAS_ESTUDO :
                        tarefas'[proxTarefa + i - 1].titulo
                        = TAREFAS_ESTUDO[i].titulo]_vars

\* C9: a call of the seed routine whose command line holds the test flag
\* changes neither the tasks nor the categories, whatever is stored.
C9_ModoTeste ==
    [][resp'.op = "popular_tarefas_estudo" =>
         \A sender \in Remetentes, argv \in Argvs :
           ((\E i \in DOMAIN argv : argv[i] = "test")
            /\ popular_tarefas_estudo(sender, argv)) =>
             UNCHANGED <<tarefas, categorias, proxTarefa, proxCategoria>>]_vars

\* the routine was called under the test flag on an empty store
C9_Witness ==
    /\ resp.op = "popular_tarefas_estudo"
    /\ resp.erros = {"test"}
    /\ tarefas = <<>>
    /\ categorias = <<>>

\* the categories of a table that carry the given name
ComNome(cats, nome) == {c \in DOMAIN cats : cats[c].nome = nome}

\* C21: a call of the seed routine that inserts tasks leaves exactly one
\* category for every category name of the list; a category of that name
\* stored before the call is kept as it was, colour included, and every
\* task the call created references the category that carries the name
\* listed for it.
C21_UmaCategoriaPorNome ==
    [][(resp'.op = "popular_tarefas_estudo" /\ resp'.lista # <<>>
        /\ tarefas' # tarefas) =>
         /\ \A i \in DOMAIN TAREFAS_ESTUDO :
              LET nome == TAREFAS_ESTUDO[i].categoria_nome
              IN /\ Cardinality(ComNome(categorias', nome)) = 1
                 /\ \A c \in ComNome(categorias, nome) :
                       /\ c \in DOMAIN categorias'
                       /\ categorias'[c] = categorias[c]
         /\ \A n \in DOMAIN resp'.lista :
              LET k == resp'.lista[n]
              IN /\ k \in DOMAIN tarefas'
                 /\ tarefas'[k].categoria
                    \in ComNome(categorias', TAREFAS_ESTUDO[n].categoria_nome)
       ]_vars

\* C27: a call of the seed routine that is ended by an exception of the
\* database in the middle of its loop leaves none of its tasks stored, so
\* that the sentinel task is absent and a later call inserts the whole list.
C27_TudoOuNada ==
    [][(resp'.op = "popular_tarefas_estudo"
        /\ resp'.erros = {"MultipleObjectsReturned"}) =>
         /\ tarefas' = tarefas
         /\ ~tarefa_existente(tarefas')]_vars

(***************************************************************************)
(* SpecValidacao: valid and invalid forms are posted to the create view    *)
(* and to the update view of stored tasks, a category is added in the      *)
(* admin, and the detail view of stored tasks is requested.                *)
(***************************************************************************)
PostsValidacao ==
    {Post(<<"a", "b", "c">>, <<>>, PRIORIDADE_MEDIA, <<>>, NULL),
     Post(<<" ", "a", "1", "b", " ">>, <<" ", "d">>, PRIORIDADE_ALTA,
          <<"1">>, 1),
     Post(<<"a", "b">>, <<"d">>, PRIORIDADE_MEDIA, <<>>, NULL),
     Post(<<"1", "2", "3">>, <<>>, PRIORIDADE_BAIXA, <<>>, NULL),
     Post(<<"a", "b", "c">>, <<" ">>, PRIORIDADE_ALTA, <<>>, NULL),
     Post(<<"a", "b", "c">>, <<>>, <<"x">>, <<>>, NULL)}

CriarQualquer ==
    \E post \in PostsValidacao :
        Cabe(post, MaxTarefas) /\ criar_tarefa("POST", post)

EditarQualquer ==
    \E pk \in DOMAIN tarefas, post \in PostsValidacao :
        editar_tarefa("POST", pk, post)

Detalhe == \E pk \in DOMAIN tarefas : TarefaDetailView(pk)

\* the one category the posted forms name is added in the admin
CriarCategoriaUnica ==
    /\ categorias = <<>>
    /\ proxCategoria = 1
    /\ CategoriaAdmin_add(<<"T">>, "primary")

NextValidacao ==
    \/ Tick
    \/ CriarCategoriaUnica
    \/ CriarQualquer
    \/ EditarQualquer
    \/ Detalhe

SpecValidacao == Init /\ [][NextValidacao]_vars

\* C11: a create or update whose form has errors stores nothing and changes
\* no stored row, and answers with the form and its errors (status 200)
\* instead of the redirect of a success.
C11_InvalidoNaoGrava ==
    [][/\ resp'.op = "criar_tarefa" =>
            \A post \in PostsValidacao :
              (TarefaForm(post, categorias).erros # {}
               /\ criar_tarefa("POST", post)) =>
                /\ UNCHANGED <<tarefas, categorias, proxTarefa>>
                /\ resp'.status = 200
                /\ resp'.erros # {}
       /\ resp'.op = "editar_tarefa" =>
            \A post \in PostsValidacao, pk \in DOMAIN tarefas :
              (TarefaForm(post, categorias).erros # {}
               /\ editar_tarefa("POST", pk, post)) =>
                /\ UNCHANGED <<tarefas, categorias, proxTarefa>>
                /\ resp'.status = 200
                /\ resp'.erros # {}]_vars

\* an update with a high priority and a blank description was refused for a
\* stored task, which kept its medium priority
C11_Witness ==
    /\ resp.op = "editar_tarefa"
    /\ resp.status = 200
    /\ resp.erros = {"descricao"}
    /\ \E k \in DOMAIN tarefas :
          tarefas[k].prioridade = PRIORIDADE_MEDIA /\ agora > tarefas[k].criada_em

\* the category key a posted category value names
CategoriaPostada(post) ==
    IF post.categoria = <<>> THEN NULL ELSE ParseInt(post.categoria)

\* C13 (as stated): a valid create stores one new task whose title,
\* description, priority, category and due date equal the submitted values,
\* pending and without completion time, and the detail view of the returned
\* key yields that task.
C13_CriarEBuscarLiteral ==
    [][/\ (resp'.op = "criar_tarefa" /\ resp'.status = 302) =>
            \A post \in PostsValidacao :
              criar_tarefa("POST", post) =>
                /\ resp'.pk \notin DOMAIN tarefas
                /\ DOMAIN tarefas' = DOMAIN tarefas \cup {resp'.pk}
                /\ tarefas'[resp'.pk].titulo = post.titulo
                /\ tarefas'[resp'.pk].descricao = post.descricao
                /\ tarefas'[resp'.pk].prioridade = post.prioridade
                /\ tarefas'[resp'.pk].categoria = CategoriaPostada(post)
                /\ tarefas'[resp'.pk].data_limite = post.data_limite
                /\ tarefas'[resp'.pk].concluida = FALSE
                /\ tarefas'[resp'.pk].concluida_em = NULL
       /\ (resp.op = "criar_tarefa" /\ resp.status = 302
           /\ TarefaDetailView(resp.pk)) =>
            /\ resp'.status = 200
            /\ resp'.contexto = tarefas[resp.pk]]_vars

\* C13 (amended): a valid create stores one new task whose title and
\* description equal the submitted values without their leading and
\* trailing blanks and whose priority, category and due date equal the
\* submitted values, pending and without completion time, and the detail
\* view of the returned key yields that task.
C13_CriarEBuscar ==
    [][/\ (resp'.op = "criar_tarefa" /\ resp'.status = 302) =>
            \A post \in PostsValidacao :
              criar_tarefa("POST", post) =>
                /\ resp'.pk \notin DOMAIN tarefas
                /\ DOMAIN tarefas' = DOMAIN tarefas \cup {resp'.pk}
                /\ tarefas'[resp'.pk].titulo = Strip(post.titulo)
                /\ tarefas'[resp'.pk].descricao = Strip(post.descricao)
                /\ tarefas'[resp'.pk].prioridade = post.prioridade
                /\ tarefas'[resp'.pk].categoria = CategoriaPostada(post)
                /\ tarefas'[resp'.pk].data_limite = post.data_limite
                /\ tarefas'[resp'.pk].concluida = FALSE
                /\ tarefas'[resp'.pk].concluida_em = NULL
       /\ (resp.op = "criar_tarefa" /\ resp.status = 302
           /\ TarefaDetailView(resp.pk)) =>
            /\ resp'.status = 200
            /\ resp'.contexto = tarefas[resp.pk]]_vars

\* the detail view returned a task created with blanks around its title,
\* with a category and a due date
C13_Witness ==
    /\ resp.op = "TarefaDetailView"
    /\ resp.status = 200
    /\ resp.contexto.titulo = <<"a", "1", "b">>
    /\ resp.contexto.descricao = <<"d">>
    /\ resp.contexto.categoria = 1
    /\ resp.contexto.data_limite = 1
    /\ resp.contexto.criada_em = resp.contexto.atualizada_em

(***************************************************************************)
(* SpecAusente: tasks with and without a category are created, and the     *)
(* update, delete, toggle and detail views are requested with GET and POST *)
(* for every key handed out so far, for key 0 and for the next key.        *)
(***************************************************************************)
PostsAusente ==
    {Post(<<"a", "b", "c">>, <<>>, PRIORIDADE_MEDIA, <<>>, NULL),
     Post(<<"a", "b", "c">>, <<>>, PRIORIDADE_MEDIA, <<"1">>, NULL),
     Post(<<"a", "b", "c">>, <<>>, PRIORIDADE_ALTA, <<>>, NULL)}

Metodos == {"GET", "POST"}

\* the keys the <int:pk> converter of the routes may hand to a view
Pks == 0..proxTarefa

CriarComCategoria ==
    \E post \in PostsAusente :
        Cabe(post, MaxTarefas) /\ criar_tarefa("POST", post)

EditarPk ==
    \E metodo \in Metodos, pk \in Pks, post \in PostsAusente :
        editar_tarefa(metodo, pk, post)

ExcluirPk == \E metodo \in Metodos, pk \in Pks : excluir_tarefa(metodo, pk)

AlternarPk == \E pk \in Pks : alternar_status(pk)

DetalhePk == \E pk \in Pks : TarefaDetailView(pk)

NextAusente ==
    \/ CriarCategoriaUnica
    \/ CriarComCategoria
    \/ EditarPk
    \/ ExcluirPk
    \/ AlternarPk
    \/ DetalhePk

SpecAusente == Init /\ [][NextAusente]_vars

\* C12: the update, delete, toggle and detail views called with a key that
\* is not stored answer 404, which is neither the answer to an invalid form
\* (200 with errors) nor a redirect, and change no task and no category.
C12_NaoEncontrada ==
    [][resp'.op \in {"editar_tarefa", "excluir_tarefa", "alternar_status",
                     "TarefaDetailView"} =>
         \A pk \in Pks \ DOMAIN tarefas :
           (\/ \E metodo \in Metodos, post \in PostsAusente :
                  editar_tarefa(metodo, pk, post)
            \/ \E metodo \in Metodos : excluir_tarefa(metodo, pk)
            \/ alternar_status(pk)
            \/ TarefaDetailView(pk)) =>
             /\ resp'.status = 404
             /\ resp'.erros = {}
             /\ UNCHANGED <<tarefas, categorias>>]_vars

\* the toggle view was requested for the key of a deleted task while
\* another task is stored
C12_Witness ==
    /\ resp.op = "alternar_status"
    /\ resp.status = 404
    /\ tarefas # <<>>
    /\ \E pk \in 1..(proxTarefa - 1) : pk \notin DOMAIN tarefas

\* C17: a POST to the delete view of a stored task removes that task and
\* nothing else: the other tasks and all the categories, the one of the
\* deleted task included, are unchanged and there is one task less; a GET
\* (the confirmation page) removes nothing.
C17_ExcluirSoUma ==
    [][resp'.op = "excluir_tarefa" =>
         \A pk \in DOMAIN tarefas :
           /\ excluir_tarefa("POST", pk) =>
                /\ DOMAIN tarefas' = DOMAIN tarefas \ {pk}
                /\ \A k \in DOMAIN tarefas' : tarefas'[k] = tarefas[k]
                /\ Cardinality(DOMAIN tarefas')
                   = Cardinality(DOMAIN tarefas) - 1
                /\ categorias' = categorias
           /\ excluir_tarefa("GET", pk) => UNCHANGED <<tarefas, categorias>>]_vars

\* a task with a category was deleted; its category and another task of the
\* same category are still stored
C17_Witness ==
    /\ resp.op = "excluir_tarefa"
    /\ resp.status = 302
    /\ resp.pk \notin DOMAIN tarefas
    /\ 1 \in DOMAIN categorias
    /\ \E k \in DOMAIN tarefas : tarefas[k].categoria = 1

\* C30: the delete view removes a task only when the request is a POST: a
\* GET for a stored task answers with the confirmation page and leaves the
\* store as it was; the toggle view, which does not read the request
\* method, changes the completion state of a stored task on any request,
\* a GET included.
C30_ExcluirSoComPost ==
    [][/\ resp'.op = "excluir_tarefa" =>
            /\ \A pk \in DOMAIN tarefas :
                  excluir_tarefa("GET", pk) =>
                    /\ resp'.status = 200
                    /\ UNCHANGED <<tarefas, categorias>>
            /\ tarefas' # tarefas =>
                  \E pk \in DOMAIN tarefas :
                     /\ excluir_tarefa("POST", pk)
                     /\ pk \notin DOMAIN tarefas'
       /\ resp'.op = "alternar_status" =>
            \A pk \in DOMAIN tarefas :
               alternar_status(pk) =>
                 tarefas'[pk].concluida = ~tarefas[pk].concluida]_vars

\* the confirmation page of a task that a request to the toggle view had
\* completed was fetched with GET, and the task is still stored
C30_Witness ==
    /\ resp.op = "excluir_tarefa"
    /\ resp.status = 200
    /\ \E k \in DOMAIN tarefas : tarefas[k].concluida

(***************************************************************************)
(* SpecAdmin: tasks are created, updated and toggled through the views     *)
(* and the three bulk actions of TarefaAdmin are run on every non-empty    *)
(* selection of stored tasks, while time passes.                           *)
(***************************************************************************)
PostsAdmin ==
    {Post(<<"a", "b", "c">>, <<>>, PRIORIDADE_MEDIA, <<>>, NULL),
     Post(<<"a", "b", "c">>, <<"d">>, PRIORIDADE_BAIXA, <<>>, NULL)}

CriarAdmin ==
    \E post \in PostsAdmin :
        Cabe(post, MaxTarefas) /\ criar_tarefa("POST", post)

EditarAdmin ==
    \E pk \in DOMAIN tarefas, post \in PostsAdmin :
        editar_tarefa("POST", pk, post)

\* the selections of the change list: the action is not run without rows
Selecoes == SUBSET (DOMAIN tarefas) \ {{}}

MarcarComoConcluida == \E queryset \in Selecoes : marcar_como_concluida(queryset)

MarcarComoPendente == \E queryset \in Selecoes : marcar_como_pendente(queryset)

DefinirPrioridadeAlta ==
    \E queryset \in Selecoes : definir_prioridade_alta(queryset)

NextAdmin ==
    \/ Tick
    \/ CriarAdmin
    \/ EditarAdmin
    \/ AlternarStatus
    \/ MarcarComoConcluida
    \/ MarcarComoPendente
    \/ DefinirPrioridadeAlta

SpecAdmin == Init /\ [][NextAdmin]_vars

\* C14: in every step the concluida_em of a stored task changes only when
\* its concluida changes: it becomes the current time when concluida goes
\* from false to true, NULL when it goes from true to false, and keeps its
\* value otherwise.
C14_ConcluidaEmSoNaTransicao ==
    [][\A k \in DOMAIN tarefas \cap DOMAIN tarefas' :
         /\ (~tarefas[k].concluida /\ tarefas'[k].concluida) =>
              tarefas'[k].concluida_em = agora
         /\ (tarefas[k].concluida /\ ~tarefas'[k].concluida) =>
              tarefas'[k].concluida_em = NULL
         /\ tarefas'[k].concluida = tarefas[k].concluida =>
              tarefas'[k].concluida_em = tarefas[k].concluida_em]_vars

\* C15: every step of an update, a toggle or a bulk action of the admin sets
\* the atualizada_em of each task it changes to the current time.
C15_AtualizadaEm ==
    [][resp'.op \in {"editar_tarefa", "alternar_status",
                     "marcar_como_concluida", "marcar_como_pendente",
                     "definir_prioridade_alta"} =>
         \A k \in DOMAIN tarefas \cap DOMAIN tarefas' :
           tarefas'[k] # tarefas[k] => tarefas'[k].atualizada_em = agora]_vars

\* C25: in every state reached by creates and updates through the form and
\* by the bulk action definir_prioridade_alta, every task of priority alta
\* has a description.
C25_AltaTemDescricao ==
    \A k \in DOMAIN tarefas :
        tarefas[k].prioridade = PRIORIDADE_ALTA => tarefas[k].descricao # <<>>

(***************************************************************************)
(* SpecCategoria: categories are added and deleted in the admin while      *)
(* tasks are created and updated with forms that name no category or one   *)
(* of the first two category keys, and time passes.                        *)
(***************************************************************************)
PostsCategoria ==
    {Post(<<"a", "b", "c">>, <<>>, PRIORIDADE_MEDIA, categoria, NULL) :
        categoria \in {<<>>, <<"1">>, <<"2">>}}

CriarNaCategoria ==
    \E post \in PostsCategoria :
        Cabe(post, MaxTarefas) /\ criar_tarefa("POST", post)

EditarCategoria ==
    \E pk \in DOMAIN tarefas, post \in PostsCategoria :
        editar_tarefa("POST", pk, post)

ExcluirCategoria == \E pk \in DOMAIN categorias : CategoriaAdmin_delete(pk)

NextCategoria ==
    \/ Tick
    \/ CriarCategoria
    \/ ExcluirCategoria
    \/ CriarNaCategoria
    \/ EditarCategoria

SpecCategoria == Init /\ [][NextCategoria]_vars

\* C16: the deletion of a category deletes no task: the tasks that
\* referenced it stay with categoria NULL and their other fields unchanged,
\* the other tasks stay as they were; and in every state the categoria of a
\* task is NULL or the key of a stored category.
C16_CategoriaExcluida ==
    /\ [](\A k \in DOMAIN tarefas :
            tarefas[k].categoria = NULL
            \/ tarefas[k].categoria \in DOMAIN categorias)
    /\ [][resp'.op = "admin_categoria_delete" =>
            \A pk \in DOMAIN categorias :
              CategoriaAdmin_delete(pk) =>
                /\ DOMAIN tarefas' = DOMAIN tarefas
                /\ \A k \in DOMAIN tarefas :
                      tarefas'[k]
                      = IF tarefas[k].categoria = pk
                        THEN [tarefas[k] EXCEPT !.categoria = NULL]
                        ELSE tarefas[k]]_vars

\* a category was deleted after time passed; a task that referenced it is
\* stored without category and another task keeps the other category
C16_Witness ==
    /\ resp.op = "admin_categoria_delete"
    /\ resp.pk \notin DOMAIN categorias
    /\ \E j, k \in DOMAIN tarefas :
          /\ j \in resp.contexto
          /\ tarefas[j].categoria = NULL
          /\ tarefas[j].atualizada_em < agora
          /\ tarefas[k].categoria \in DOMAIN categorias

(***************************************************************************)
(* SpecPainel: tasks with and without a due date are created, toggled and  *)
(* deleted while whole days pass, and the home page is requested.          *)
(***************************************************************************)
PassaUmDia ==
    /\ agora + TicksPorDia <= FimDosDias
    /\ agora' = agora + TicksPorDia
    /\ UNCHANGED <<tarefas, categorias, proxTarefa, proxCategoria, resp,
                   receptor, pedidos>>

CriarNoPainel ==
    \E data_limite \in {NULL, 0} :
        /\ Cabe(PostPrazo(data_limite), MaxTarefas)
        /\ criar_tarefa("POST", PostPrazo(data_limite))

Index == index

NextPainel ==
    \/ PassaUmDia
    \/ CriarNoPainel
    \/ AlternarStatus
    \/ ExcluirTarefa
    \/ Index

SpecPainel == Init /\ [][NextPainel]_vars

\* the stored tasks that have a due date before today and are not completed
Atrasadas ==
    {k \in DOMAIN tarefas :
        /\ tarefas[k].data_limite # NULL
        /\ tarefas[k].data_limite < Data(agora)
        /\ ~tarefas[k].concluida}

\* C18: whatever happened before, the statistics of the home page are those
\* of the store at the time of the request: the number of tasks, of pending
\* tasks, of completed tasks and of late tasks, with pending + completed =
\* total and late <= pending.
C18_Estatisticas ==
    [][(resp'.op = "index" /\ index) =>
         /\ resp'.contexto.total_tarefas = Cardinality(DOMAIN tarefas)
         /\ resp'.contexto.tarefas_pendentes
            = Cardinality({k \in DOMAIN tarefas : ~tarefas[k].concluida})
         /\ resp'.contexto.tarefas_concluidas
            = Cardinality({k \in DOMAIN tarefas : tarefas[k].concluida})
         /\ resp'.contexto.tarefas_atrasadas = Cardinality(Atrasadas)
         /\ resp'.contexto.tarefas_pendentes
            + resp'.contexto.tarefas_concluidas
            = resp'.contexto.total_tarefas
         /\ resp'.contexto.tarefas_atrasadas
            <= resp'.contexto.tarefas_pendentes]_vars

\* the home page counted two tasks, one of them late and pending and the
\* other completed after its due date had passed
C18_Witness ==
    /\ resp.op = "index"
    /\ resp.contexto.total_tarefas = 2
    /\ resp.contexto.tarefas_atrasadas = 1
    /\ resp.contexto.tarefas_concluidas = 1
    /\ \E k \in DOMAIN tarefas :
          /\ tarefas[k].concluida
          /\ tarefas[k].data_limite # NULL
          /\ tarefas[k].data_limite < Data(agora)

(***************************************************************************)
(* SpecApi: a category is added in the admin, tasks are created with and   *)
(* without it and toggled while time passes, and the JSON export is        *)
(* requested.                                                              *)
(***************************************************************************)
Api == api_tarefas

NextApi ==
    \/ Tick
    \/ CriarCategoriaUnica
    \/ CriarComCategoria
    \/ AlternarStatus
    \/ Api

SpecApi == Init /\ [][NextApi]_vars

\* C20: the export holds one record for each stored task and no other, with
\* the key, title, description, completion flag and priority of the task,
\* the text of its creation time and, as category, the name of the category
\* of the task or NULL when it has none; the export changes nothing stored.
C20_Exportacao ==
    [][(resp'.op = "api_tarefas" /\ api_tarefas) =>
         LET dados == resp'.contexto IN
         /\ Len(dados) = Cardinality(DOMAIN tarefas)
         /\ {dados[i].id : i \in DOMAIN dados} = DOMAIN tarefas
         /\ \A i \in DOMAIN dados :
              LET t == tarefas[dados[i].id] IN
              /\ DOMAIN dados[i]
                 = {"id", "titulo", "descricao", "concluida", "prioridade",
                    "categoria", "criada_em"}
              /\ dados[i].titulo = t.titulo
              /\ dados[i].descricao = t.descricao
              /\ dados[i].concluida = t.concluida
              /\ dados[i].prioridade = t.prioridade
              /\ ParseInt(dados[i].criada_em) = t.criada_em
              /\ dados[i].categoria
                 = IF t.categoria = NULL
                   THEN Nenhum
                   ELSE Algum(categorias[t.categoria].nome)
         /\ UNCHANGED <<tarefas, categorias, proxTarefa, proxCategoria>>]_vars

\* the export listed a completed task of a stored category and a task
\* without category
C20_Witness ==
    /\ resp.op = "api_tarefas"
    /\ Len(resp.contexto) = 2
    /\ \E i, j \in DOMAIN resp.contexto :
          /\ resp.contexto[i].categoria = Nenhum
          /\ resp.contexto[j].categoria # Nenhum
          /\ resp.contexto[j].concluida

(***************************************************************************)
(* SpecConcorrente: post_migrate is sent in two processes (two migrate     *)
(* commands on one database) whose receivers run side by side, on stores   *)
(* that hold categories added in the admin and a task created before.      *)
(***************************************************************************)
Verificar ==
    \E p \in Processos, sender \in Remetentes, argv \in Argvs :
        popular_verifica(p, sender, argv)

Popular == \E p \in Processos : popular_laco(p)

NextConcorrente ==
    \/ CriarCategoriaGuia
    \/ CriarAntes
    \/ Verificar
    \/ Popular

SpecConcorrente == Init /\ [][NextConcorrente]_vars

\* process p ended after it had found no sentinel task
PassouPelaVerificacao(p) ==
    /\ receptor[p].pc = "fim"
    /\ receptor[p].saida \cap {"sender", "test", "tarefa_existente"} = {}

\* the stored tasks with the title of entry i of the guide
ComTitulo(i) ==
    {k \in DOMAIN tarefas : tarefas[k].titulo = TAREFAS_ESTUDO[i].titulo}

\* C19: when two runs of the seed routine both find no sentinel task before
\* either of them inserts, both insert the whole list and the store ends
\* with every task of the guide twice.
C19_SemeaduraDupla ==
    (\A p \in Processos : PassouPelaVerificacao(p)) =>
      /\ \A p \in Processos :
            Len(receptor[p].criadas) = Len(TAREFAS_ESTUDO)
      /\ \A i \in DOMAIN TAREFAS_ESTUDO : Cardinality(ComTitulo(i)) = 2

(***************************************************************************)
(* SpecAcoes: tasks are created and toggled through the views and the      *)
(* three bulk actions of TarefaAdmin are run on every non-empty selection  *)
(* of stored tasks, while time passes.                                     *)
(***************************************************************************)
CriarParaAcao ==
    LET post == Post(<<"a", "b", "c">>, <<>>, PRIORIDADE_MEDIA, <<>>, NULL)
    IN Cabe(post, MaxTarefas) /\ criar_tarefa("POST", post)

NextAcoes ==
    \/ Tick
    \/ CriarParaAcao
    \/ AlternarStatus
    \/ MarcarComoConcluida
    \/ MarcarComoPendente
    \/ DefinirPrioridadeAlta

SpecAcoes == Init /\ [][NextAcoes]_vars

\* C22: marcar_como_concluida leaves every selected task completed with a
\* concluida_em, marcar_como_pendente leaves every selected task pending
\* without concluida_em, and the three bulk actions leave the tasks that
\* are not selected as they were.
C22_AcoesEmMassa ==
    [][\A queryset \in Selecoes :
         /\ (resp'.op = "marcar_como_concluida"
             /\ marcar_como_concluida(queryset)) =>
              /\ \A k \in queryset : /\ tarefas'[k].concluida
                                     /\ tarefas'[k].concluida_em # NULL
              /\ \A k \in DOMAIN tarefas \ queryset :
                    tarefas'[k] = tarefas[k]
         /\ (resp'.op = "marcar_como_pendente"
             /\ marcar_como_pendente(queryset)) =>
              /\ \A k \in queryset : /\ ~tarefas'[k].concluida
                                     /\ tarefas'[k].concluida_em = NULL
              /\ \A k \in DOMAIN tarefas \ queryset :
                    tarefas'[k] = tarefas[k]
         /\ (resp'.op = "definir_prioridade_alta"
             /\ definir_prioridade_alta(queryset)) =>
              /\ \A k \in queryset :
                    tarefas'[k].prioridade = PRIORIDADE_ALTA
              /\ \A k \in DOMAIN tarefas \ queryset :
                    tarefas'[k] = tarefas[k]]_vars

\* marcar_como_pendente ran on one of two completed tasks: the selected one
\* is pending without concluida_em and the other is still completed
C22_Witness ==
    /\ resp.op = "marcar_como_pendente"
    /\ \E k \in DOMAIN tarefas :
          ~tarefas[k].concluida /\ tarefas[k].concluida_em = NULL
    /\ \E k \in DOMAIN tarefas :
          tarefas[k].concluida /\ tarefas[k].concluida_em # NULL

(***************************************************************************)
(* SpecRecentes: tasks of two priorities are created while time passes,    *)
(* one more than the home page lists, and the home page is requested.      *)
(***************************************************************************)
PostsRecentes ==
    {Post(<<"a", "b", "c">>, <<"d">>, PRIORIDADE_ALTA, <<>>, NULL),
     Post(<<"a", "b", "c">>, <<"d">>, PRIORIDADE_BAIXA, <<>>, NULL)}

CriarRecente ==
    \E post \in PostsRecentes :
        Cabe(post, LimiteUltimas + 1) /\ criar_tarefa("POST", post)

NextRecentes ==
    \/ Tick
    \/ CriarRecente
    \/ Index

SpecRecentes == Init /\ [][NextRecentes]_vars

\* the keys listed by the home page
Listadas == {resp.lista[i] : i \in DOMAIN resp.lista}

\* C23: the list of the home page holds the 5 most recently created tasks,
\* or all the tasks when there are fewer than 5, whatever their priorities:
\* no task that is left out was created after a task that is listed.
C23_UltimasTarefas ==
    resp.op = "index" =>
      /\ Listadas \subseteq DOMAIN tarefas
      /\ Cardinality(Listadas) = Len(resp.lista)
      /\ Len(resp.lista) = IF Cardinality(DOMAIN tarefas) < LimiteUltimas
                           THEN Cardinality(DOMAIN tarefas)
                           ELSE LimiteUltimas
      /\ \A k \in Listadas, j \in DOMAIN tarefas \ Listadas :
            tarefas[k].criada_em >= tarefas[j].criada_em

(***************************************************************************)
(* SpecChangeList: tasks are created and toggled through the views, the    *)
(* bulk actions that write the completion flag are run and the change      *)
(* list of the admin is posted with any set of rows ticked.                *)
(***************************************************************************)
EditarNaLista ==
    \E marcadas \in SUBSET (DOMAIN tarefas) : changelist_view(marcadas)

NextChangeList ==
    \/ Tick
    \/ CriarParaAcao
    \/ AlternarStatus
    \/ MarcarComoConcluida
    \/ MarcarComoPendente
    \/ EditarNaLista

SpecChangeList == Init /\ [][NextChangeList]_vars

\* C24: whatever path writes the completion flag, the toggle, the bulk
\* actions or the editable checkbox of the admin's change list, no stored
\* task is completed without concluida_em or pending with concluida_em.
C24_NenhumaEscritaQuebra ==
    \A k \in DOMAIN tarefas :
        /\ ~(tarefas[k].concluida /\ tarefas[k].concluida_em = NULL)
        /\ ~(~tarefas[k].concluida /\ tarefas[k].concluida_em # NULL)

(***************************************************************************)
(* SpecRessemear: post_migrate is sent again and again while the first     *)
(* two stored tasks, the sentinel among them, are deleted or renamed       *)
(* through the views.                                                      *)
(***************************************************************************)
PrimeirasChaves == {k \in DOMAIN tarefas : k <= 2}

ExcluirSemeada == \E pk \in PrimeirasChaves : excluir_tarefa("POST", pk)

RenomearSemeada ==
    \E pk \in PrimeirasChaves :
        editar_tarefa("POST", pk,
                      Post(<<"a", "b", "c">>, <<"d">>, PRIORIDADE_MEDIA,
                           <<>>, NULL))

NextRessemear ==
    \/ Tick
    \/ Semear
    \/ ExcluirSemeada
    \/ RenomearSemeada

SpecRessemear == Init /\ [][NextRessemear]_vars

\* C26: however calls of the seed routine are mixed with deletes and
\* renames of tasks, no title of the list is stored more than once.
C26_SemTituloRepetido ==
    \A i \in DOMAIN TAREFAS_ESTUDO : Cardinality(ComTitulo(i)) <= 1

(***************************************************************************)
(* SpecIntercalado: tasks are created, and each of two workers serves one  *)
(* request to the update view or to the toggle view, its load and its      *)
(* save being separate steps, while time passes.                           *)
(***************************************************************************)
PostsIntercalado ==
    {Post(<<"a", "1", "b">>, <<"d">>, PRIORIDADE_ALTA, <<>>, NULL),
     Post(<<"a", "b", "c">>, <<>>, PRIORIDADE_ALTA, <<>>, NULL)}

EditarCarrega ==
    \E p \in Processos, metodo \in Metodos, pk \in Pks,
       post \in PostsIntercalado :
        editar_tarefa_carrega(p, metodo, pk, post)

EditarSalva == \E p \in Processos : editar_tarefa_salva(p)

AlternarCarrega ==
    \E p \in Processos, pk \in Pks : alternar_status_carrega(p, pk)

AlternarSalva == \E p \in Processos : alternar_status_salva(p)

NextIntercalado ==
    \/ Tick
    \/ CriarParaAcao
    \/ EditarCarrega
    \/ EditarSalva
    \/ AlternarCarrega
    \/ AlternarSalva

SpecIntercalado == Init /\ [][NextIntercalado]_vars

\* workers p and q have served an update that saved and a toggle of the
\* same task
EditouEAlternou(p, q) ==
    /\ pedidos[p].pc = "feito" /\ pedidos[p].op = "editar_tarefa"
    /\ pedidos[p].status = 302
    /\ pedidos[q].pc = "feito" /\ pedidos[q].op = "alternar_status"
    /\ pedidos[q].status = 302
    /\ pedidos[p].pk = pedidos[q].pk

\* C28: when an update and a toggle of the same task have both been
\* served, in whatever order their loads and saves ran, the stored
\* concluida is the negation of the one the task had before and the fields
\* of the update are stored.
C28_AlternanciaNaoSePerde ==
    \A p, q \in Processos :
        EditouEAlternou(p, q) =>
          LET t == tarefas[pedidos[p].pk] IN
          /\ t.concluida = ~pedidos[q].tarefa.concluida
          /\ t.titulo = pedidos[p].form.titulo
          /\ t.descricao = pedidos[p].form.descricao
          /\ t.prioridade = pedidos[p].form.prioridade

\* C29: when the workers have served their requests to the update view and
\* the toggle view, in whatever order their loads and saves ran, every
\* stored task has concluida_em if and only if it is completed.
C29_InvarianteIntercalado ==
    (\A p \in Processos : pedidos[p].pc # "salvar") =>
      \A k \in DOMAIN tarefas :
          (tarefas[k].concluida_em # NULL) <=> tarefas[k].concluida

\* an update and a toggle of one task were served with their steps
\* interleaved: the toggle saved first and the update then wrote the
\* instance it had loaded before
C29_Witness ==
    \E p, q \in Processos :
        /\ EditouEAlternou(p, q)
        /\ pedidos[p].tarefa = pedidos[q].tarefa
        /\ tarefas[pedidos[p].pk].concluida = pedidos[q].tarefa.concluida
        /\ tarefas[pedidos[p].pk].titulo = pedidos[p].form.titulo

====
